---- MODULE Spec2Model ----
(***************************************************************************)
(* Model of the container loading engine of container_loading_modern.py:   *)
(* LoadingAlgorithm (can_place, get_candidate_positions,                   *)
(* calculate_placement_score, find_position, place_cargo, apply_rules,     *)
(* expand_groups, load_all) and the multi-container orchestrator           *)
(* ContainerLoadingApp.start_multi_container_loading.                      *)
(*                                                                         *)
(* Units.  Lengths are integers in 0.01 cm (the resolution of the          *)
(* QDoubleSpinBox inputs), so 10 cm = 1000 and the tolerance 0.01 cm = 1.  *)
(* Weights are integers in 0.1 kg, so the 100 kg threshold is 1000.        *)
(* Scores are the code's real-valued scores multiplied by 2 000 000, which *)
(* makes every coefficient of calculate_placement_score an integer.        *)
(***************************************************************************)
EXTENDS Integers, Sequences, FiniteSets, TLC

VARIABLES
    container,      \* LoadingAlgorithm.container / ContainerLoadingApp.container
    cargos,         \* the item list handed to the driver (self.cargos)
    rules,          \* the rules argument of LoadingAlgorithm.__init__
    cargo_groups,   \* the cargo_groups argument of LoadingAlgorithm.__init__
    pc,             \* position of the driver
    sorted_cargos,  \* load_all: the rule-sorted singletons; multi: remaining_cargos
    idx,            \* number of items of sorted_cargos already attempted
    placed_cargos,  \* LoadingAlgorithm.placed_cargos
    step_counter,   \* LoadingAlgorithm.step_counter
    loaded,         \* load_all: loaded; multi: loaded_in_this
    not_loaded,     \* load_all: not_loaded; multi: still_remaining
    twin_weight,    \* max_weight of the second container of the twin run
    twin_placed,    \* placed_cargos of the twin run
    twin_not_loaded,\* not_loaded of the twin run
    container_count,\* container_count_spin.value()
    container_idx,  \* loop variable of start_multi_container_loading
    container_results, \* ContainerLoadingApp.container_results
    expanded,       \* the singletons produced by the expansion (history)
    processed_cargos, \* load_all: the item list after expand_groups
    selected_cargo_index, \* Container3DView.selected_cargo_index (0-based, -1: none)
    collision_enabled,    \* Container3DView.collision_enabled
    drag_mode,      \* Container3DView.drag_mode
    dragging,       \* Container3DView.dragging
    last_edit,      \* the last manual-edit call and what it returned (history)
    edit_count,     \* number of manual-edit calls so far (history)
    pallet,         \* palletize_cargos: the pallet parameters read from the dialog
    selected_cargos,\* palletize_cargos: the selected items, unfolded
    ppc,            \* position of _palletize_with_3d_algorithm
    remaining,      \* _palletize_with_3d_algorithm: remaining
    pallet_count,   \* _palletize_with_3d_algorithm: pallet_count
    pallet_contents,\* _palletize_with_3d_algorithm: pallet_contents
    current_weight, \* _palletize_with_3d_algorithm: current_weight
    placed_items,   \* _palletize_with_3d_algorithm: placed_items
    made_progress,  \* _palletize_with_3d_algorithm: made_progress
    palletized      \* _palletize_with_3d_algorithm: palletized

vars == <<container, cargos, rules, cargo_groups, pc, sorted_cargos, idx,
          placed_cargos, step_counter, loaded, not_loaded,
          twin_weight, twin_placed, twin_not_loaded,
          container_count, container_idx, container_results, expanded,
          processed_cargos, selected_cargo_index, collision_enabled, drag_mode, dragging,
          last_edit, edit_count,
          pallet, selected_cargos, ppc, remaining, pallet_count, pallet_contents,
          current_weight, placed_items, made_progress, palletized>>

\* the state of the palletizing dialog and of _palletize_with_3d_algorithm
palletizer == <<pallet, selected_cargos, ppc, remaining, pallet_count,
                pallet_contents, current_weight, placed_items, made_progress,
                palletized>>

\* the state of the 3D view's manual-edit interface
view == <<selected_cargo_index, collision_enabled, drag_mode, dragging,
          last_edit, edit_count>>

----------------------------------------------------------------------------
(* Bounds of the model *)

MaxItems == 2
MaxQty == 3
MaxContainers == 2
MaxSingles == 4

----------------------------------------------------------------------------
(* Program constants *)

Tol == 1              \* 0.01 cm
SupportTol == 10      \* 0.1 cm
GridStep == 1000      \* grid_step = 10 cm
SupportNum == 7       \* required support 0.7 = 7 / 10
SupportDen == 10
WasteLimit == 3000    \* 30 cm
RotationBonus == 200000000  \* 100 score points

Max(a, b) == IF a >= b THEN a ELSE b
Min(a, b) == IF a <= b THEN a ELSE b
Abs(a) == IF a >= 0 THEN a ELSE -a

----------------------------------------------------------------------------
(* Geometry: PlacedCargo.actual_length / actual_width *)

EffLength(cargo, rotated) == IF rotated THEN cargo.width ELSE cargo.length
EffWidth(cargo, rotated) == IF rotated THEN cargo.length ELSE cargo.width

actual_length(p) == EffLength(p.cargo, p.rotated)
actual_width(p) == EffWidth(p.cargo, p.rotated)

\* max(0, min(a2, b2) - max(a1, b1))
Overlap(a1, a2, b1, b2) == Max(0, Min(a2, b2) - Max(a1, b1))

RECURSIVE SumSeq(_)
SumSeq(s) == IF s = <<>> THEN 0 ELSE Head(s) + SumSeq(Tail(s))

----------------------------------------------------------------------------
(* LoadingAlgorithm.can_place *)

CollidesIgnoringRotation(p, x, y, z, length, width, height) ==
    /\ x < p.x + p.cargo.length - Tol
    /\ x + length > p.x + Tol
    /\ y < p.y + p.cargo.width - Tol
    /\ y + width > p.y + Tol
    /\ z < p.z + p.cargo.height - Tol
    /\ z + height > p.z + Tol

\* lines 433-442: the strict collision test of can_place against one placement
Collides(p, x, y, z, length, width, height) ==
    /\ x < p.x + actual_length(p) - Tol
    /\ x + length > p.x + Tol
    /\ y < p.y + actual_width(p) - Tol
    /\ y + width > p.y + Tol
    /\ z < p.z + p.cargo.height - Tol
    /\ z + height > p.z + Tol

\* lines 446-456: the support area accumulated by can_place for a box at (x, y, z)
SupportArea(placed, x, y, z, length, width) ==
    SumSeq([i \in 1..Len(placed) |->
        IF Abs(placed[i].z + placed[i].cargo.height - z) < SupportTol
        THEN Overlap(x, x + length, placed[i].x, placed[i].x + actual_length(placed[i]))
             * Overlap(y, y + width, placed[i].y, placed[i].y + actual_width(placed[i]))
        ELSE 0])

SupportOkAnyContact(placed, x, y, z, length, width) ==
    z > Tol => SupportArea(placed, x, y, z, length, width) > 0

\* lines 444-459: a box above the floor needs 70% of its footprint supported
SupportOk(placed, x, y, z, length, width) ==
    z > Tol =>
        ~(SupportDen * SupportArea(placed, x, y, z, length, width)
            < SupportNum * length * width)

\* lines 410-412: a rotated placement needs allow_rotate
RotationAllowed(cargo, rotated) == ~(rotated /\ ~cargo.allow_rotate)

BottomOnlyIgnored(cargo, z) == TRUE

\* lines 418-420: a bottom_only item stays on the floor
BottomOnlyOk(cargo, z) == ~(cargo.bottom_only /\ z > Tol)

WithinContainerUnrotated(cont, cargo, x, y, z, rotated) ==
    /\ ~(x < -Tol \/ y < -Tol \/ z < -Tol)
    /\ ~(x + cargo.length > cont.length + Tol)
    /\ ~(y + cargo.width > cont.width + Tol)
    /\ ~(z + cargo.height > cont.height + Tol)

\* lines 422-430: the boundary check
WithinContainer(cont, cargo, x, y, z, rotated) ==
    /\ ~(x < -Tol \/ y < -Tol \/ z < -Tol)
    /\ ~(x + EffLength(cargo, rotated) > cont.length + Tol)
    /\ ~(y + EffWidth(cargo, rotated) > cont.width + Tol)
    /\ ~(z + cargo.height > cont.height + Tol)

CanPlaceWithinPayload(cont, placed, cargo, x, y, z, rotated) ==
    LET length == EffLength(cargo, rotated)
        width == EffWidth(cargo, rotated)
        height == cargo.height
    IN  /\ RotationAllowed(cargo, rotated)
        /\ BottomOnlyOk(cargo, z)
        /\ WithinContainer(cont, cargo, x, y, z, rotated)
        /\ \A i \in 1..Len(placed) :
              ~Collides(placed[i], x, y, z, length, width, height)
        /\ SupportOk(placed, x, y, z, length, width)
        /\ SumSeq([i \in 1..Len(placed) |-> placed[i].cargo.weight]) + cargo.weight
              <= cont.max_weight

CanPlace(cont, placed, cargo, x, y, z, rotated) ==
    LET length == EffLength(cargo, rotated)
        width == EffWidth(cargo, rotated)
        height == cargo.height
    IN  /\ RotationAllowed(cargo, rotated)
        /\ BottomOnlyOk(cargo, z)
        /\ WithinContainer(cont, cargo, x, y, z, rotated)
        /\ \A i \in 1..Len(placed) :
              ~Collides(placed[i], x, y, z, length, width, height)
        /\ SupportOk(placed, x, y, z, length, width)

----------------------------------------------------------------------------
(* LoadingAlgorithm.calculate_best_rotation_for_layer *)

calculate_best_rotation_for_layer(cont, cargo) ==
    IF ~cargo.allow_rotate THEN FALSE
    ELSE LET count_no_rotate == (cont.width \div cargo.width) * (cont.length \div cargo.length)
             count_rotated == (cont.width \div cargo.length) * (cont.length \div cargo.width)
         IN  count_rotated > count_no_rotate

----------------------------------------------------------------------------
(* LoadingAlgorithm.get_candidate_positions: the set of anchors <<x, y, z>> *)

CandidatesOf(cont, p, cargo, rotated) ==
    LET length == EffLength(cargo, rotated)
        width == EffWidth(cargo, rotated)
        pl == actual_length(p)
        pw == actual_width(p)
        ph == p.cargo.height
    IN  {<<p.x + pl, p.y, p.z>>, <<p.x, p.y + pw, p.z>>}
        \cup (IF p.cargo.stackable /\ ~cargo.bottom_only
              THEN {<<p.x, p.y, p.z + ph>>} ELSE {})
        \cup (IF p.x + pl + length <= cont.length
              THEN {<<p.x + pl, 0, p.z>>, <<p.x + pl, 0, 0>>} ELSE {})
        \cup (IF p.y + pw + width <= cont.width
              THEN {<<0, p.y + pw, p.z>>, <<0, p.y + pw, 0>>} ELSE {})
        \cup {<<0, p.y, p.z>>, <<0, p.y + pw, p.z>>,
              <<p.x, 0, p.z>>, <<p.x + pl, 0, p.z>>}

get_candidate_positions(cont, placed, cargo, rotated) ==
    {<<0, 0, 0>>}
    \cup UNION {CandidatesOf(cont, placed[i], cargo, rotated) : i \in 1..Len(placed)}

----------------------------------------------------------------------------
(* LoadingAlgorithm.calculate_placement_score, multiplied by 2 000 000 *)

ContactOf(p, cargo, x, y, z, length, width) ==
    LET pl == actual_length(p)
        pw == actual_width(p)
        ph == p.cargo.height
        overlap_x == Overlap(x, x + length, p.x, p.x + pl)
        overlap_y == Overlap(y, y + width, p.y, p.y + pw)
        overlap_z == Overlap(z, z + cargo.height, p.z, p.z + ph)
    IN  (IF Abs(x - (p.x + pl)) < SupportTol \/ Abs(p.x - (x + length)) < SupportTol
         THEN 2 * overlap_y * overlap_z ELSE 0)
        + (IF Abs(y - (p.y + pw)) < SupportTol \/ Abs(p.y - (y + width)) < SupportTol
           THEN 2 * overlap_x * overlap_z ELSE 0)
        + (IF Abs(z - (p.z + ph)) < SupportTol
           THEN 4 * overlap_x * overlap_y ELSE 0)

calculate_placement_score(cont, placed, cargo, x, y, z, rotated) ==
    LET length == EffLength(cargo, rotated)
        width == EffWidth(cargo, rotated)
        distance_score == 20000 * x + 30000 * y + 40000 * z
        contact == SumSeq([i \in 1..Len(placed) |->
                       ContactOf(placed[i], cargo, x, y, z, length, width)])
                   + (IF x < SupportTol THEN width * cargo.height ELSE 0)
                   + (IF y < SupportTol THEN length * cargo.height ELSE 0)
                   + (IF z < SupportTol THEN 2 * length * width ELSE 0)
        remaining_x == cont.length - (x + length)
        remaining_y == cont.width - (y + width)
        waste_penalty ==
            (IF 0 < remaining_x /\ remaining_x < WasteLimit THEN 10000 * remaining_x ELSE 0)
            + (IF 0 < remaining_y /\ remaining_y < WasteLimit THEN 10000 * remaining_y ELSE 0)
    IN  distance_score - contact + waste_penalty

----------------------------------------------------------------------------
(* LoadingAlgorithm.find_position *)

\* the orientations find_position tries, in order
Rotations(cont, cargo) ==
    LET optimal_rotation == calculate_best_rotation_for_layer(cont, cargo)
    IN  IF cargo.allow_rotate THEN <<optimal_rotation, ~optimal_rotation>>
        ELSE <<FALSE>>

\* the score find_position compares: the placement score with the bonus for
\* the preselected orientation
BonusScore(cont, placed, cargo, x, y, z, rotated) ==
    calculate_placement_score(cont, placed, cargo, x, y, z, rotated)
    - (IF rotated = calculate_best_rotation_for_layer(cont, cargo)
       THEN RotationBonus ELSE 0)

\* the feasible primary candidates: [k: index of the orientation, pos, score]
PrimaryFeasible(cont, placed, cargo) ==
    LET rots == Rotations(cont, cargo)
    IN  UNION {
          {[k |-> k, x |-> c[1], y |-> c[2], z |-> c[3], rotated |-> rots[k],
            score |-> BonusScore(cont, placed, cargo, c[1], c[2], c[3], rots[k])] :
             c \in {d \in get_candidate_positions(cont, placed, cargo, rots[k]) :
                      CanPlace(cont, placed, cargo, d[1], d[2], d[3], rots[k])}} :
          k \in 1..Len(rots)}

\* z_levels of the grid fallback and the grid coordinates range(0, int(dim), 10)
ZLevels(placed) == {0} \cup {placed[i].z + placed[i].cargo.height : i \in 1..Len(placed)}

\* int(dim) truncates to whole centimetres (100 units)
GridRange(dim) ==
    {g \in {GridStep * i : i \in 0..(dim \div GridStep)} : g < (dim \div 100) * 100}

GridFeasible(cont, placed, cargo) ==
    LET rots == Rotations(cont, cargo)
    IN  UNION {
          {[k |-> k, x |-> c[1], y |-> c[2], z |-> c[3], rotated |-> rots[k],
            score |-> BonusScore(cont, placed, cargo, c[1], c[2], c[3], rots[k])] :
             c \in {d \in GridRange(cont.length) \X GridRange(cont.width) \X ZLevels(placed) :
                      CanPlace(cont, placed, cargo, d[1], d[2], d[3], rots[k])}} :
          k \in 1..Len(rots)}

\* the iteration order of the grid fallback: z, then x, then y, then orientation
GridBefore(a, b) ==
    \/ a.z < b.z
    \/ a.z = b.z /\ a.x < b.x
    \/ a.z = b.z /\ a.x = b.x /\ a.y < b.y
    \/ a.z = b.z /\ a.x = b.x /\ a.y = b.y /\ a.k < b.k

\* The results find_position can return, as a set of records
\* [found, x, y, z, rotated].  The primary loop keeps the first candidate of
\* lowest score: the earlier orientation wins a tie between orientations, and
\* within one orientation the winner of a tie is decided by the iteration
\* order of a Python set, modelled as a choice.  The grid loop is ordered.
NoPosition == [found |-> FALSE, x |-> 0, y |-> 0, z |-> 0, rotated |-> FALSE]
Position(f) == [found |-> TRUE, x |-> f.x, y |-> f.y, z |-> f.z, rotated |-> f.rotated]

find_positionGridMerged(cont, placed, cargo) ==
    LET all == PrimaryFeasible(cont, placed, cargo) \cup GridFeasible(cont, placed, cargo)
    IN  IF all = {} THEN {NoPosition}
        ELSE LET best == {f \in all : \A g \in all : f.score <= g.score}
             IN  {Position(f) : f \in {g \in best : \A h \in best : h = g \/ GridBefore(g, h)}}

find_position(cont, placed, cargo) ==
    LET prim == PrimaryFeasible(cont, placed, cargo)
    IN  IF prim # {}
        THEN LET best == {f \in prim : \A g \in prim : f.score <= g.score}
                 kmin == CHOOSE k \in {f.k : f \in best} : \A f \in best : k <= f.k
             IN  {Position(f) : f \in {g \in best : g.k = kmin}}
        ELSE LET grid == GridFeasible(cont, placed, cargo)
             IN  IF grid = {} THEN {NoPosition}
                 ELSE LET best == {f \in grid : \A g \in grid : f.score <= g.score}
                      IN  {Position(f) : f \in {g \in best :
                                \A h \in best : h = g \/ GridBefore(g, h)}}

----------------------------------------------------------------------------
(* LoadingAlgorithm.place_cargo *)

NewPlacedFlipped(cargo, pos, step) ==
    [cargo |-> cargo, x |-> pos.x, y |-> pos.y, z |-> pos.z,
     rotated |-> ~pos.rotated, step_number |-> step, container_index |-> 0]

\* the PlacedCargo that place_cargo appends for a found position
NewPlaced(cargo, pos, step) ==
    [cargo |-> cargo, x |-> pos.x, y |-> pos.y, z |-> pos.z,
     rotated |-> pos.rotated, step_number |-> step, container_index |-> 0]

\* placed_cargos after place_cargo(cargo) when find_position returned pos
PlaceCargo(placed, counter, cargo, pos) ==
    IF pos.found THEN Append(placed, NewPlaced(cargo, pos, counter + 1)) ELSE placed

NextCounterAlways(counter, pos) == counter + 1

\* step_counter after place_cargo(cargo) when find_position returned pos
NextCounter(counter, pos) == IF pos.found THEN counter + 1 ELSE counter

\* load_all: loaded.append(self.placed_cargos[-1]) when place_cargo succeeded
LoadedNext(ld, placed, pos) ==
    IF pos.found THEN Append(ld, placed[Len(placed)]) ELSE ld

NotLoadedNextDropped(nl, cargo, pos) == nl

\* load_all: not_loaded.append(cargo) when place_cargo failed
NotLoadedNext(nl, cargo, pos) ==
    IF pos.found THEN nl ELSE Append(nl, cargo)

----------------------------------------------------------------------------
(* The rules: LoadingRule and its subclasses, DEFAULT_RULES *)

Rule(id, priority, threshold) ==
    [id |-> id, enabled |-> TRUE, priority |-> priority, weight_threshold |-> threshold]

RulePriorityFirst == Rule("priority_first", 100, 0)
RuleHeavyBottom == Rule("heavy_bottom", 80, 1000)
RuleSimilarSizeStack == Rule("similar_stack", 60, 0)
RuleSameSizeFirst == Rule("same_size", 50, 0)
RuleVolumeFirst == Rule("volume_first", 40, 0)

DEFAULT_RULES ==
    <<RulePriorityFirst, RuleHeavyBottom, RuleSimilarSizeStack,
      RuleSameSizeFirst, RuleVolumeFirst>>

\* self.rules = rules or DEFAULT_RULES.copy()
EffectiveRules(rs) == IF rs = <<>> THEN DEFAULT_RULES ELSE rs

----------------------------------------------------------------------------
(* sorted(): a stable sort of s by the keys ks (sequences of integers of    *)
(* one length, compared lexicographically as Python compares tuples)        *)

LexLess(a, b) ==
    \E k \in 1..Len(a) : a[k] < b[k] /\ \A j \in 1..(k - 1) : a[j] = b[j]

StableSortTiesReversed(s, ks) ==
    LET n == Len(s)
        rank(i) == 1 + Cardinality({j \in 1..n :
                         LexLess(ks[j], ks[i]) \/ (ks[j] = ks[i] /\ j > i)})
    IN  [r \in 1..n |-> s[CHOOSE i \in 1..n : rank(i) = r]]

StableSort(s, ks) ==
    LET n == Len(s)
        rank(i) == 1 + Cardinality({j \in 1..n :
                         LexLess(ks[j], ks[i]) \/ (ks[j] = ks[i] /\ j < i)})
    IN  [r \in 1..n |-> s[CHOOSE i \in 1..n : rank(i) = r]]

RECURSIVE Concat(_)
Concat(ss) == IF ss = <<>> THEN <<>> ELSE Head(ss) \o Concat(Tail(ss))

SelectSeqIdx(s, keep) ==
    LET F[i \in 0..Len(s)] ==
          IF i = 0 THEN <<>>
          ELSE IF i \in keep THEN Append(F[i - 1], s[i]) ELSE F[i - 1]
    IN  F[Len(s)]

----------------------------------------------------------------------------
(* LoadingAlgorithm.apply_rules *)

\* round(dim / 10) * 10 with Python's round-half-to-even, dim in 0.01 cm
Bucket(dim) ==
    LET q == dim \div 1000
        r == dim % 1000
    IN  1000 * (IF r < 500 THEN q
                ELSE IF r > 500 THEN q + 1
                ELSE IF q % 2 = 0 THEN q ELSE q + 1)

\* -cargo.volume as two digits in base 10000 (most significant first), so
\* that the product of three lengths is compared exactly
NegVolume(cargo) ==
    LET a == cargo.length * cargo.width
        a1 == a \div 10000
        a0 == a % 10000
        lo == a0 * cargo.height
    IN  <<-(a1 * cargo.height + lo \div 10000), -(lo % 10000)>>

RuleKey(rule, cargo) ==
    CASE rule.id = "priority_first" -> <<-cargo.priority>>
      [] rule.id = "heavy_bottom" ->
            <<IF cargo.weight >= rule.weight_threshold THEN 0 ELSE 1, -cargo.weight>>
      [] rule.id = "volume_first" -> NegVolume(cargo)
      [] rule.id = "similar_stack" -> <<-cargo.length>>
      [] rule.id = "same_size" ->
            <<-Bucket(cargo.length), -Bucket(cargo.width), -Bucket(cargo.height)>>
      [] OTHER -> <<>>

EnabledRulesUnsorted(rs) == SelectSeqIdx(rs, {i \in 1..Len(rs) : rs[i].enabled})

\* sorted([r for r in self.rules if r.enabled], key=priority, reverse=True)
EnabledRules(rs) ==
    LET en == SelectSeqIdx(rs, {i \in 1..Len(rs) : rs[i].enabled})
    IN  StableSort(en, [i \in 1..Len(en) |-> <<-en[i].priority>>])

composite_key(enabled_rules, cargo) ==
    Concat([i \in 1..Len(enabled_rules) |-> RuleKey(enabled_rules[i], cargo)])

apply_rules(rs, cs) ==
    LET enabled_rules == EnabledRules(rs)
    IN  IF enabled_rules = <<>> THEN cs
        ELSE StableSort(cs, [i \in 1..Len(cs) |-> composite_key(enabled_rules, cs[i])])

----------------------------------------------------------------------------
(* LoadingAlgorithm.expand_groups *)

SetMax(S) == CHOOSE m \in S : \A v \in S : v <= m

CombinedMaxHeight(g, group, ms) ==
    LET n == 1..Len(ms)
    IN  [id |-> -g,
         length |-> SetMax({ms[i].length : i \in n}),
         width |-> SetMax({ms[i].width : i \in n}),
         height |-> SetMax({ms[i].height : i \in n}),
         weight |-> SumSeq([i \in n |-> ms[i].weight]),
         quantity |-> 1,
         stackable |-> \A i \in n : ms[i].stackable,
         allow_rotate |-> TRUE,
         bottom_only |-> FALSE,
         priority |-> 0,
         group_id |-> group.id]

\* the synthetic item of the g-th group with members ms (a non-empty
\* sequence); its id is a fresh one, distinct from every input id
Combined(g, group, ms) ==
    LET n == 1..Len(ms)
        explicit == group.combined_length > 0
    IN  [id |-> -g,
         length |-> IF explicit THEN group.combined_length
                    ELSE SetMax({ms[i].length : i \in n}),
         width |-> IF explicit THEN group.combined_width
                   ELSE SetMax({ms[i].width : i \in n}),
         height |-> IF explicit THEN group.combined_height
                    ELSE SumSeq([i \in n |-> ms[i].height]),
         weight |-> IF explicit /\ group.combined_weight # 0 THEN group.combined_weight
                    ELSE SumSeq([i \in n |-> ms[i].weight]),
         quantity |-> 1,
         stackable |-> \A i \in n : ms[i].stackable,
         allow_rotate |-> TRUE,
         bottom_only |-> FALSE,
         priority |-> 0,
         group_id |-> group.id]

Members(cs, group) == SelectSeqIdx(cs, {i \in 1..Len(cs) : cs[i].id \in group.cargo_ids})

expand_groups(groups, cs) ==
    IF groups = <<>> THEN cs
    ELSE LET present == {g \in 1..Len(groups) : Members(cs, groups[g]) # <<>>}
             grouped_ids == UNION {groups[g].cargo_ids : g \in present}
             combined == [g \in 1..Len(groups) |->
                            IF g \in present
                            THEN <<Combined(g, groups[g], Members(cs, groups[g]))>>
                            ELSE <<>>]
         IN  Concat(combined)
             \o SelectSeqIdx(cs, {i \in 1..Len(cs) : cs[i].id \notin grouped_ids})

----------------------------------------------------------------------------
(* the quantity expansion of load_all and start_multi_container_loading *)

Single(cargo, i) == [cargo EXCEPT !.quantity = 1, !.id = <<cargo.id, i>>]

ExpandQuantityOnce(cs) == [k \in 1..Len(cs) |-> Single(cs[k], 0)]

ExpandQuantity(cs) ==
    Concat([k \in 1..Len(cs) |-> [i \in 1..cs[k].quantity |-> Single(cs[k], i - 1)]])

----------------------------------------------------------------------------
(* The inputs of the model: small containers and items (0.01 cm, 0.1 kg)   *)

Container(l, w, h, mw) == [length |-> l, width |-> w, height |-> h, max_weight |-> mw]

Containers ==
    {Container(2000, 1000, 2000, 100),
     Container(1000, 2000, 2000, 5000),
     Container(1050, 1000, 2050, 1000)}

Item(l, w, h, wt, st, rot, bot, prio) ==
    [id |-> 0, length |-> l, width |-> w, height |-> h, weight |-> wt, quantity |-> 1,
     stackable |-> st, allow_rotate |-> rot, bottom_only |-> bot, priority |-> prio,
     group_id |-> 0]

ItemTypes ==
    {Item(1000, 1000, 1000,   60, TRUE,  TRUE,  FALSE, 0),
     Item(1000, 1000, 1000, 1200, FALSE, FALSE, FALSE, 0),
     Item(2000, 1000,  500,  300, TRUE,  TRUE,  FALSE, 0),
     Item( 700, 1000, 1000,   40, TRUE,  FALSE, FALSE, 1),
     Item(1001,  500, 1000,   80, TRUE,  TRUE,  TRUE,  0)}

\* the item lists: k items with ids 1..k, at most MaxSingles units in all
CargoLists ==
    UNION {
      {cs \in [1..k -> [t : ItemTypes, q : 1..MaxQty]] :
          SumSeq([i \in 1..k |-> cs[i].q]) <= MaxSingles} :
      k \in 0..MaxItems}

MakeCargos(cs) ==
    [i \in 1..Len(cs) |-> [cs[i].t EXCEPT !.id = i, !.quantity = cs[i].q]]

RuleSets == {<<>>, <<RuleVolumeFirst>>}

Group(id, ids) ==
    [id |-> id, cargo_ids |-> ids, combined_length |-> 0, combined_width |-> 0,
     combined_height |-> 0, combined_weight |-> 0]

GroupSets(cs) == {<<>>} \cup (IF Len(cs) >= 2 THEN {<<Group(1, {1, 2})>>} ELSE {})

----------------------------------------------------------------------------
(* LoadingAlgorithm.load_all on a fresh instance *)

\* the inputs of a run
Inputs ==
    /\ container \in Containers
    /\ \E cs \in CargoLists : cargos = MakeCargos(cs)
    /\ rules \in RuleSets
    /\ cargo_groups \in GroupSets(cargos)

\* no manual edit has been made
NoEdit == [op |-> "none", result |-> FALSE]

\* the palletizing dialog has not been accepted
NoPallet == [pallet_l |-> 0, pallet_w |-> 0, base_h |-> 0, content_max_h |-> 0,
             max_wt |-> 0]

\* the state before the driver starts: a new LoadingAlgorithm and the view
\* as Container3DView.__init__ leaves it
Fresh ==
    /\ pc = "start"
    /\ sorted_cargos = <<>>
    /\ idx = 0
    /\ placed_cargos = <<>>
    /\ step_counter = 0
    /\ loaded = <<>>
    /\ not_loaded = <<>>
    /\ twin_placed = <<>>
    /\ twin_not_loaded = <<>>
    /\ container_idx = 0
    /\ container_results = <<>>
    /\ expanded = <<>>
    /\ processed_cargos = <<>>
    /\ selected_cargo_index = -1
    /\ collision_enabled = TRUE
    /\ drag_mode = FALSE
    /\ dragging = FALSE
    /\ last_edit = NoEdit
    /\ edit_count = 0
    /\ pallet = NoPallet
    /\ selected_cargos = <<>>
    /\ ppc = "idle"
    /\ remaining = <<>>
    /\ pallet_count = 0
    /\ pallet_contents = <<>>
    /\ current_weight = 0
    /\ placed_items = <<>>
    /\ made_progress = FALSE
    /\ palletized = <<>>

Init ==
    /\ Inputs
    /\ Fresh
    /\ twin_weight = 0
    /\ container_count = 0

\* lines 753-769: group expansion, quantity expansion, rule sort
LoadAllBegin ==
    /\ pc = "start"
    /\ processed_cargos' = expand_groups(cargo_groups, cargos)
    /\ LET singles == ExpandQuantity(processed_cargos')
       IN  /\ expanded' = singles
           /\ sorted_cargos' = apply_rules(EffectiveRules(rules), singles)
    /\ pc' = "loop"
    /\ idx' = 0
    /\ loaded' = <<>>
    /\ not_loaded' = <<>>
    /\ UNCHANGED <<view, palletizer>>
    /\ UNCHANGED <<container, cargos, rules, cargo_groups, placed_cargos, step_counter,
                   twin_weight, twin_placed, twin_not_loaded,
                   container_count, container_idx, container_results>>

\* lines 771-775: one iteration of the placement loop
LoadAllStep ==
    /\ pc = "loop"
    /\ idx < Len(sorted_cargos)
    /\ LET cargo == sorted_cargos[idx + 1]
       IN  \E pos \in find_position(container, placed_cargos, cargo) :
              /\ placed_cargos' = PlaceCargo(placed_cargos, step_counter, cargo, pos)
              /\ step_counter' = NextCounter(step_counter, pos)
              /\ loaded' = LoadedNext(loaded, placed_cargos', pos)
              /\ not_loaded' = NotLoadedNext(not_loaded, cargo, pos)
    /\ idx' = idx + 1
    /\ UNCHANGED <<view, processed_cargos, palletizer>>
    /\ UNCHANGED <<container, cargos, rules, cargo_groups, pc, sorted_cargos,
                   twin_weight, twin_placed, twin_not_loaded,
                   container_count, container_idx, container_results, expanded>>

\* line 777: return loaded, not_loaded
LoadAllReturn ==
    /\ pc = "loop"
    /\ idx = Len(sorted_cargos)
    /\ pc' = "done"
    /\ UNCHANGED <<view, processed_cargos, palletizer>>
    /\ UNCHANGED <<container, cargos, rules, cargo_groups, sorted_cargos, idx,
                   placed_cargos, step_counter, loaded, not_loaded,
                   twin_weight, twin_placed, twin_not_loaded,
                   container_count, container_idx, container_results, expanded>>

Next == LoadAllBegin \/ LoadAllStep \/ LoadAllReturn

Spec == Init /\ [][Next]_vars

----------------------------------------------------------------------------
(* Two runs of load_all on the same items, rules and groups, in containers *)
(* that differ only in max_weight                                          *)

TwinWeights == {50, 100000}

TwinContainer == [container EXCEPT !.max_weight = twin_weight]

TwinInit ==
    /\ Inputs
    /\ Fresh
    /\ twin_weight \in TwinWeights \ {container.max_weight}
    /\ container_count = 0

TwinBegin ==
    /\ pc = "start"
    /\ processed_cargos' = expand_groups(cargo_groups, cargos)
    /\ LET singles == ExpandQuantity(processed_cargos')
       IN  /\ expanded' = singles
           /\ sorted_cargos' = apply_rules(EffectiveRules(rules), singles)
    /\ pc' = "loop"
    /\ idx' = 0
    /\ loaded' = <<>>
    /\ not_loaded' = <<>>
    /\ twin_placed' = <<>>
    /\ twin_not_loaded' = <<>>
    /\ UNCHANGED <<view, palletizer>>
    /\ UNCHANGED <<container, cargos, rules, cargo_groups, placed_cargos, step_counter,
                   twin_weight, container_count, container_idx, container_results>>

\* one iteration of the placement loop in both runs.  The winner of a tie
\* among the primary candidates depends on the iteration order of the
\* candidate set only: where both runs have the same results to choose from,
\* they choose the same one.
TwinStep ==
    /\ pc = "loop"
    /\ idx < Len(sorted_cargos)
    /\ LET cargo == sorted_cargos[idx + 1]
           here == find_position(container, placed_cargos, cargo)
           there == find_position(TwinContainer, twin_placed, cargo)
       IN  \E pos \in here : \E tpos \in there :
              /\ here = there => tpos = pos
              /\ placed_cargos' = PlaceCargo(placed_cargos, step_counter, cargo, pos)
              /\ step_counter' = NextCounter(step_counter, pos)
              /\ loaded' = LoadedNext(loaded, placed_cargos', pos)
              /\ not_loaded' = NotLoadedNext(not_loaded, cargo, pos)
              /\ twin_placed' = PlaceCargo(twin_placed, Len(twin_placed), cargo, tpos)
              /\ twin_not_loaded' = NotLoadedNext(twin_not_loaded, cargo, tpos)
    /\ idx' = idx + 1
    /\ UNCHANGED <<view, processed_cargos, palletizer>>
    /\ UNCHANGED <<container, cargos, rules, cargo_groups, pc, sorted_cargos,
                   twin_weight, container_count, container_idx, container_results,
                   expanded>>

TwinReturn ==
    /\ pc = "loop"
    /\ idx = Len(sorted_cargos)
    /\ pc' = "done"
    /\ UNCHANGED <<view, processed_cargos, palletizer>>
    /\ UNCHANGED <<container, cargos, rules, cargo_groups, sorted_cargos, idx,
                   placed_cargos, step_counter, loaded, not_loaded,
                   twin_weight, twin_placed, twin_not_loaded,
                   container_count, container_idx, container_results, expanded>>

TwinNext == TwinBegin \/ TwinStep \/ TwinReturn

TwinSpec == TwinInit /\ [][TwinNext]_vars

----------------------------------------------------------------------------
(* ContainerLoadingApp.start_multi_container_loading                       *)
(* sorted_cargos holds remaining_cargos, loaded holds loaded_in_this and   *)
(* not_loaded holds still_remaining.                                       *)

MultiInit ==
    /\ Inputs
    /\ Fresh
    /\ twin_weight = 0
    /\ container_count \in 1..MaxContainers

\* lines 3829-3838: the results are reset and every item is unfolded
MultiBegin ==
    /\ pc = "start"
    /\ container_results' = <<>>
    /\ sorted_cargos' = ExpandQuantity(cargos)
    /\ expanded' = ExpandQuantity(cargos)
    /\ container_idx' = 0
    /\ pc' = "for"
    /\ UNCHANGED <<view, processed_cargos, palletizer>>
    /\ UNCHANGED <<container, cargos, rules, cargo_groups, idx, placed_cargos,
                   step_counter, loaded, not_loaded, twin_weight, twin_placed,
                   twin_not_loaded, container_count>>

\* the loop of line 3845 goes on: a container is left and items remain
MultiContinues == container_idx < container_count /\ sorted_cargos # <<>>

\* lines 3859-3864: a new LoadingAlgorithm and empty lists for the container
MultiNewContainer ==
    /\ pc = "for"
    /\ MultiContinues
    /\ placed_cargos' = <<>>
    /\ step_counter' = 0
    /\ loaded' = <<>>
    /\ not_loaded' = <<>>
    /\ idx' = 0
    /\ pc' = "place"
    /\ UNCHANGED <<view, processed_cargos, palletizer>>
    /\ UNCHANGED <<container, cargos, rules, cargo_groups, sorted_cargos,
                   twin_weight, twin_placed, twin_not_loaded,
                   container_count, container_idx, container_results, expanded>>

\* lines 3855-3857: the progress dialog was cancelled; the method returns
MultiCancel ==
    /\ pc = "for"
    /\ MultiContinues
    /\ pc' = "cancelled"
    /\ UNCHANGED <<view, processed_cargos, palletizer>>
    /\ UNCHANGED <<container, cargos, rules, cargo_groups, sorted_cargos, idx,
                   placed_cargos, step_counter, loaded, not_loaded,
                   twin_weight, twin_placed, twin_not_loaded,
                   container_count, container_idx, container_results, expanded>>

TaggedOneBased(placed, pos, k) ==
    IF pos.found THEN [placed EXCEPT ![Len(placed)].container_index = k + 1] ELSE placed

\* line 3869: placed.container_index = container_idx, on the newest placement
Tagged(placed, pos, k) ==
    IF pos.found THEN [placed EXCEPT ![Len(placed)].container_index = k] ELSE placed

StillRemainingDropped(sr, cargo, pos) == sr

\* lines 3871-3872: still_remaining.append(cargo) when place_cargo failed
StillRemainingNext(sr, cargo, pos) ==
    IF pos.found THEN sr ELSE Append(sr, cargo)

\* lines 3866-3872: one item of the remainder is tried in this container
MultiPlace ==
    /\ pc = "place"
    /\ idx < Len(sorted_cargos)
    /\ LET cargo == sorted_cargos[idx + 1]
       IN  \E pos \in find_position(container, placed_cargos, cargo) :
              /\ placed_cargos' =
                    Tagged(PlaceCargo(placed_cargos, step_counter, cargo, pos),
                           pos, container_idx)
              /\ step_counter' = NextCounter(step_counter, pos)
              /\ loaded' = LoadedNext(loaded, placed_cargos', pos)
              /\ not_loaded' = StillRemainingNext(not_loaded, cargo, pos)
    /\ idx' = idx + 1
    /\ UNCHANGED <<view, processed_cargos, palletizer>>
    /\ UNCHANGED <<container, cargos, rules, cargo_groups, pc, sorted_cargos,
                   twin_weight, twin_placed, twin_not_loaded,
                   container_count, container_idx, container_results, expanded>>

\* lines 3874-3882: the container's result is recorded and the items it did
\* not take become the remainder
MultiContainerDone ==
    /\ pc = "place"
    /\ idx = Len(sorted_cargos)
    /\ container_results' =
          Append(container_results,
                 [container |-> container, container_index |-> container_idx,
                  placed_cargos |-> loaded])
    /\ sorted_cargos' = not_loaded
    /\ container_idx' = container_idx + 1
    /\ pc' = "for"
    /\ UNCHANGED <<view, processed_cargos, palletizer>>
    /\ UNCHANGED <<container, cargos, rules, cargo_groups, idx, placed_cargos,
                   step_counter, loaded, not_loaded, twin_weight, twin_placed,
                   twin_not_loaded, container_count, expanded>>

\* the loop is over (no container or no item left): the method completes
MultiFinish ==
    /\ pc = "for"
    /\ ~MultiContinues
    /\ pc' = "done"
    /\ UNCHANGED <<view, processed_cargos, palletizer>>
    /\ UNCHANGED <<container, cargos, rules, cargo_groups, sorted_cargos, idx,
                   placed_cargos, step_counter, loaded, not_loaded,
                   twin_weight, twin_placed, twin_not_loaded,
                   container_count, container_idx, container_results, expanded>>

MultiNext ==
    \/ MultiBegin
    \/ MultiNewContainer
    \/ MultiCancel
    \/ MultiPlace
    \/ MultiContainerDone
    \/ MultiFinish

MultiSpec == MultiInit /\ [][MultiNext]_vars

----------------------------------------------------------------------------
(* Container3DView: the manual-edit interface.  A placement list is edited  *)
(* at the 0-based index sel; the edited list is the result.                 *)

CollisionTol == 50    \* 0.5 cm
snap_distance == 500  \* 5 cm
SearchRadius == 5000  \* 50 cm
SearchStep == 1000    \* 10 cm
PixelsPerLength == 500

\* max(0, min(hi, v))
Clamp(hi, v) == Max(0, Min(hi, v))

ViewCollidesTight(other, x, y, z, length, width, height) ==
    /\ x < other.x + actual_length(other) - Tol
    /\ x + length > other.x + Tol
    /\ y < other.y + actual_width(other) - Tol
    /\ y + width > other.y + Tol
    /\ z < other.z + other.cargo.height - Tol
    /\ z + height > other.z + Tol

\* lines 928-930: the collision test of check_collision against one placement
ViewCollides(other, x, y, z, length, width, height) ==
    /\ x < other.x + actual_length(other) - CollisionTol
    /\ x + length > other.x + CollisionTol
    /\ y < other.y + actual_width(other) - CollisionTol
    /\ y + width > other.y + CollisionTol
    /\ z < other.z + other.cargo.height - CollisionTol
    /\ z + height > other.z + CollisionTol

\* check_collision(placed, new_x, new_y, new_z, exclude_index) on the list
check_collision(list, p, new_x, new_y, new_z, exclude_index) ==
    \E i \in 1..Len(list) :
        /\ i - 1 # exclude_index
        /\ ViewCollides(list[i], new_x, new_y, new_z,
                        actual_length(p), actual_width(p), p.cargo.height)

\* find_snap_position on one axis: v is the tentative coordinate, size the
\* moved box's extent, los and exts the coordinates and extents of the boxes;
\* start is the value after the snaps to the container faces.  Every match
\* overwrites the earlier ones, in list order.
SnapToOthers(los, exts, exclude_index, v, size, start) ==
    LET F[i \in 0..Len(los)] ==
          IF i = 0 THEN start
          ELSE IF i - 1 = exclude_index THEN F[i - 1]
          ELSE IF Abs(v + size - los[i]) < snap_distance THEN los[i] - size
               ELSE IF Abs(v - (los[i] + exts[i])) < snap_distance
                    THEN los[i] + exts[i]
                    ELSE F[i - 1]
    IN  F[Len(los)]

\* lines 945-954: the snaps to the container faces
SnapToFaces(v, size, dim) ==
    IF Abs(v + size - dim) < snap_distance THEN dim - size
    ELSE IF Abs(v) < snap_distance THEN 0 ELSE v

SnapToFloor(v) == IF Abs(v) < snap_distance THEN 0 ELSE v

\* the coordinates and extents of the placements of the list
OtherX(list) == [i \in 1..Len(list) |-> list[i].x]
OtherY(list) == [i \in 1..Len(list) |-> list[i].y]
OtherZ(list) == [i \in 1..Len(list) |-> list[i].z]
OtherLength(list) == [i \in 1..Len(list) |-> actual_length(list[i])]
OtherWidth(list) == [i \in 1..Len(list) |-> actual_width(list[i])]
OtherHeight(list) == [i \in 1..Len(list) |-> list[i].cargo.height]

\* find_snap_position: <<snapped_x, snapped_y, snapped_z>>
find_snap_position(cont, list, p, new_x, new_y, new_z, exclude_index) ==
    <<SnapToOthers(OtherX(list), OtherLength(list), exclude_index, new_x,
                   actual_length(p), SnapToFaces(new_x, actual_length(p), cont.length)),
      SnapToOthers(OtherY(list), OtherWidth(list), exclude_index, new_y,
                   actual_width(p), SnapToFaces(new_y, actual_width(p), cont.width)),
      SnapToOthers(OtherZ(list), OtherHeight(list), exclude_index, new_z,
                   p.cargo.height, SnapToFloor(new_z))>>

\* the result of an edit call: its return value and the placement list after
Rejected(list) == [ok |-> FALSE, list |-> list]
Accepted(list) == [ok |-> TRUE, list |-> list]

ValidSelection(list, sel) == ~(sel < 0 \/ sel >= Len(list))

MovedToRestamped(list, sel, x, y, z) ==
    [list EXCEPT ![sel + 1].x = x, ![sel + 1].y = y, ![sel + 1].z = z,
                 ![sel + 1].step_number = Len(list) + 1]

\* placed.x = new_x; placed.y = new_y; placed.z = new_z
MovedTo(list, sel, x, y, z) ==
    [list EXCEPT ![sel + 1].x = x, ![sel + 1].y = y, ![sel + 1].z = z]

\* placed.rotated = not placed.rotated
Flipped(list, sel) == [list EXCEPT ![sel + 1].rotated = ~list[sel + 1].rotated]

\* lines 1020-1031: the offsets of the neighbourhood search, dx outermost
SearchOffsets ==
    {SearchStep * i : i \in (-(SearchRadius \div SearchStep))..(SearchRadius \div SearchStep)}

RotateSearchKeepsFlip(list, flipped, sel, free) ==
    IF free = {} THEN Rejected(flipped)
    ELSE LET first == CHOOSE c \in free : \A d \in free :
                          c[1] < d[1] \/ (c[1] = d[1] /\ c[2] <= d[2])
         IN  Accepted(MovedTo(flipped, sel, first[3], first[4], flipped[sel + 1].z))

\* lines 1018-1039: the outcome of the neighbourhood search; free holds the
\* collision-free offsets <<dx, dy, test_x, test_y>>
RotateSearch(list, flipped, sel, free) ==
    IF free = {} THEN Rejected(list)
    ELSE LET first == CHOOSE c \in free : \A d \in free :
                          c[1] < d[1] \/ (c[1] = d[1] /\ c[2] <= d[2])
         IN  Accepted(MovedTo(flipped, sel, first[3], first[4], flipped[sel + 1].z))

\* rotate_selected_cargo.  The centre of the box is kept: the anchor moves by
\* half the difference of the two horizontal sizes.
rotate_selected_cargo(cont, list, sel, collision) ==
    IF ~ValidSelection(list, sel) THEN Rejected(list)
    ELSE IF ~list[sel + 1].cargo.allow_rotate THEN Rejected(list)
    ELSE LET placed == list[sel + 1]
             flipped == Flipped(list, sel)
             turned == flipped[sel + 1]
             new_length == actual_length(turned)
             new_width == actual_width(turned)
             new_x == Clamp(cont.length - new_length,
                            placed.x + (actual_length(placed) - new_length) \div 2)
             new_y == Clamp(cont.width - new_width,
                            placed.y + (actual_width(placed) - new_width) \div 2)
         IN  IF collision /\ check_collision(flipped, turned, new_x, new_y, placed.z, sel)
             THEN RotateSearch(list, flipped, sel,
                    {c \in {<<dx, dy, Clamp(cont.length - new_length, new_x + dx),
                              Clamp(cont.width - new_width, new_y + dy)>> :
                              dx \in SearchOffsets, dy \in SearchOffsets} :
                        ~check_collision(flipped, turned, c[3], c[4], placed.z, sel)})
             ELSE Accepted(MovedTo(flipped, sel, new_x, new_y, placed.z))

\* move_selected_cargo(dx, dy, dz)
move_selected_cargo(cont, list, sel, collision, dx, dy, dz) ==
    IF ~ValidSelection(list, sel) THEN Rejected(list)
    ELSE LET placed == list[sel + 1]
             new_x == Clamp(cont.length - actual_length(placed), placed.x + dx)
             new_y == Clamp(cont.width - actual_width(placed), placed.y + dy)
             new_z == Clamp(cont.height - placed.cargo.height, placed.z + dz)
         IN  IF collision /\ check_collision(list, placed, new_x, new_y, new_z, sel)
             THEN Rejected(list)
             ELSE Accepted(MovedTo(list, sel, new_x, new_y, new_z))

\* mouseMoveEvent, lines 1832-1868: a drag of the selected box by (dx, dy)
\* pixels; with Shift it changes the height.  ok tells whether the box moved.
drag_selected_cargo(cont, list, sel, collision, dx, dy, shift) ==
    IF ~(sel < Len(list)) THEN Rejected(list)
    ELSE LET placed == list[sel + 1]
             move(d) == (d * cont.length) \div PixelsPerLength
         IN  IF shift
             THEN LET new_z == Clamp(cont.height - placed.cargo.height,
                                     placed.z - move(dy))
                      snap == find_snap_position(cont, list, placed,
                                                 placed.x, placed.y, new_z, sel)
                  IN  IF ~collision
                         \/ ~check_collision(list, placed, placed.x, placed.y, snap[3], sel)
                      THEN Accepted(MovedTo(list, sel, placed.x, placed.y, snap[3]))
                      ELSE Rejected(list)
             ELSE LET new_x == Clamp(cont.length - actual_length(placed),
                                     placed.x + move(dx))
                      new_y == Clamp(cont.width - actual_width(placed),
                                     placed.y + move(dy))
                      snap == find_snap_position(cont, list, placed,
                                                 new_x, new_y, placed.z, sel)
                  IN  IF ~collision
                         \/ ~check_collision(list, placed, snap[1], snap[2], placed.z, sel)
                      THEN Accepted(MovedTo(list, sel, snap[1], snap[2], placed.z))
                      ELSE IF ~check_collision(list, placed, new_x, new_y, placed.z, sel)
                      THEN Accepted(MovedTo(list, sel, new_x, new_y, placed.z))
                      ELSE Rejected(list)

\* EDIT_MORE

----------------------------------------------------------------------------
(* Manual editing of the result of a single-container run: load_all, then   *)
(* the handlers of the 3D view and of the adjustment panel                  *)

MaxEdits == 2
MaxEditSingles == 2

EditContainers ==
    {Container(1000, 2000, 2000, 5000),
     Container(1000, 1000, 2000, 5000)}

EditItemTypes ==
    {Item(1000, 1000, 1000, 60, TRUE, FALSE, FALSE, 0),
     Item(1000,  990, 1000, 60, TRUE, TRUE,  FALSE, 0),
     Item(2000, 1000,  500, 300, TRUE, TRUE, FALSE, 0),
     Item(1000,  500, 1000, 40, TRUE, TRUE,  FALSE, 0)}

EditCargoLists ==
    UNION {
      {cs \in [1..k -> [t : EditItemTypes, q : 1..MaxQty]] :
          SumSeq([i \in 1..k |-> cs[i].q]) <= MaxEditSingles} :
      k \in 0..MaxItems}

\* the pixel distances of a mouse move, the steps of the arrow keys (1 cm,
\* 10 cm with Ctrl) and steps of the step size box (1 cm, 20 cm)
DragPixels == {-300, 25, 300}
KeySteps == {100, 1000}
FineTuneSteps == {100, 2000}
Directions ==
    {<<1, 0, 0>>, <<-1, 0, 0>>, <<0, 1, 0>>, <<0, -1, 0>>, <<0, 0, 1>>, <<0, 0, -1>>}

EditInit ==
    /\ container \in EditContainers
    /\ \E cs \in EditCargoLists : cargos = MakeCargos(cs)
    /\ rules = <<>>
    /\ cargo_groups = <<>>
    /\ Fresh
    /\ twin_weight = 0
    /\ container_count = 0

\* the part of the state no handler of the view touches
EditFrame ==
    UNCHANGED <<container, cargos, rules, cargo_groups, pc, sorted_cargos, idx,
                step_counter, not_loaded, twin_weight, twin_placed, twin_not_loaded,
                container_count, container_idx, container_results, expanded,
                processed_cargos, palletizer>>

\* the view shows the list load_all returned (line 3764); the placements are
\* objects shared by that list and the algorithm's own
Shown == pc = "done"

\* an edit call with outcome r
EditCall(op, r) ==
    /\ edit_count < MaxEdits
    /\ placed_cargos' = r.list
    /\ loaded' = r.list
    /\ last_edit' = [op |-> op, result |-> r.ok]
    /\ edit_count' = edit_count + 1

\* toggle_drag_mode / set_drag_mode
ToggleDragMode ==
    /\ Shown
    /\ drag_mode' = ~drag_mode
    /\ selected_cargo_index' = IF drag_mode THEN -1 ELSE selected_cargo_index
    /\ dragging' = IF drag_mode THEN FALSE ELSE dragging
    /\ UNCHANGED <<collision_enabled, last_edit, edit_count, placed_cargos, loaded>>
    /\ EditFrame

\* toggle_collision_detection
ToggleCollisionDetection ==
    /\ Shown
    /\ collision_enabled' = ~collision_enabled
    /\ UNCHANGED <<selected_cargo_index, drag_mode, dragging, last_edit, edit_count,
                   placed_cargos, loaded>>
    /\ EditFrame

\* mousePressEvent with the left button: hit_test gives a placement or -1
MousePress ==
    /\ Shown
    /\ \E hit_index \in -1..(Len(placed_cargos) - 1) :
          /\ selected_cargo_index' = hit_index
          /\ dragging' = IF hit_index >= 0 /\ drag_mode THEN TRUE ELSE dragging
    /\ UNCHANGED <<collision_enabled, drag_mode, last_edit, edit_count,
                   placed_cargos, loaded>>
    /\ EditFrame

\* mouseMoveEvent while a box is dragged
MouseMoveDrag ==
    /\ Shown
    /\ drag_mode /\ dragging /\ selected_cargo_index >= 0
    /\ \E dx \in DragPixels : \E dy \in DragPixels : \E shift \in BOOLEAN :
          EditCall("drag", drag_selected_cargo(container, placed_cargos,
                              selected_cargo_index, collision_enabled, dx, dy, shift))
    /\ UNCHANGED <<selected_cargo_index, collision_enabled, drag_mode, dragging>>
    /\ EditFrame

\* mouseReleaseEvent
MouseRelease ==
    /\ Shown
    /\ dragging
    /\ dragging' = FALSE
    /\ UNCHANGED <<selected_cargo_index, collision_enabled, drag_mode, last_edit,
                   edit_count, placed_cargos, loaded>>
    /\ EditFrame

\* keyPressEvent: an arrow or page key, with or without Ctrl
KeyPressMove ==
    /\ Shown
    /\ drag_mode
    /\ \E d \in Directions : \E step \in KeySteps :
          EditCall("move", move_selected_cargo(container, placed_cargos,
                              selected_cargo_index, collision_enabled,
                              d[1] * step, d[2] * step, d[3] * step))
    /\ UNCHANGED <<selected_cargo_index, collision_enabled, drag_mode, dragging>>
    /\ EditFrame

\* keyPressEvent: the R key
KeyPressRotate ==
    /\ Shown
    /\ drag_mode
    /\ EditCall("rotate", rotate_selected_cargo(container, placed_cargos,
                              selected_cargo_index, collision_enabled))
    /\ UNCHANGED <<selected_cargo_index, collision_enabled, drag_mode, dragging>>
    /\ EditFrame

\* fine_tune_cargo: one of the six buttons with the chosen step size
FineTuneCargo ==
    /\ Shown
    /\ \E d \in Directions : \E step \in FineTuneSteps :
          EditCall("move", move_selected_cargo(container, placed_cargos,
                              selected_cargo_index, collision_enabled,
                              d[1] * step, d[2] * step, d[3] * step))
    /\ UNCHANGED <<selected_cargo_index, collision_enabled, drag_mode, dragging>>
    /\ EditFrame

\* rotate_selected_cargo_from_btn; the button is enabled in drag mode only
RotateFromBtn ==
    /\ Shown
    /\ drag_mode
    /\ EditCall("rotate", rotate_selected_cargo(container, placed_cargos,
                              selected_cargo_index, collision_enabled))
    /\ UNCHANGED <<selected_cargo_index, collision_enabled, drag_mode, dragging>>
    /\ EditFrame

EditNext ==
    \/ LoadAllBegin
    \/ LoadAllStep
    \/ LoadAllReturn
    \/ ToggleDragMode
    \/ ToggleCollisionDetection
    \/ MousePress
    \/ MouseMoveDrag
    \/ MouseRelease
    \/ KeyPressMove
    \/ KeyPressRotate
    \/ FineTuneCargo
    \/ RotateFromBtn

EditSpec == EditInit /\ [][EditNext]_vars

----------------------------------------------------------------------------
(* The preparation of load_all, one pure function at a time: expand_groups, *)
(* the quantity expansion and apply_rules (applied once more to its own     *)
(* result), on item lists, rule lists and groups of their own               *)

PrepItemTypes ==
    {Item(1000, 1000, 1000, 1200, FALSE, FALSE, FALSE, 0),
     Item(2000, 1000,  500,  300, TRUE,  TRUE,  FALSE, 0),
     Item( 700, 1000, 1000,   40, TRUE,  FALSE, FALSE, 1),
     Item(1001,  500, 1000,   80, TRUE,  TRUE,  TRUE,  0),
     Item(1500,  500,  800, 1000, TRUE,  TRUE,  FALSE, 0)}

PrepCargoLists ==
    UNION {
      {cs \in [1..k -> [t : PrepItemTypes, q : 1..MaxQty]] :
          SumSeq([i \in 1..k |-> cs[i].q]) <= MaxSingles} :
      k \in 0..MaxItems}

\* the rule lists: none (the defaults apply), the default rules with any of
\* them disabled, and a list given in another order than that of priority
PrepRuleSets ==
    {<<>>, <<RuleVolumeFirst, RulePriorityFirst>>}
    \cup {[i \in 1..Len(DEFAULT_RULES) |-> [DEFAULT_RULES[i] EXCEPT !.enabled = e[i]]] :
             e \in [1..Len(DEFAULT_RULES) -> BOOLEAN]}

\* a group with an explicit box
GroupBox(id, ids, l, w, h, wt) ==
    [id |-> id, cargo_ids |-> ids, combined_length |-> l, combined_width |-> w,
     combined_height |-> h, combined_weight |-> wt]

PrepGroupSets ==
    {<<>>,
     <<Group(1, {1, 2})>>,
     <<Group(1, {2, 3}), Group(2, {9})>>,
     <<GroupBox(1, {1}, 1500, 1000, 800, 0), Group(2, {1, 3})>>}

PrepInit ==
    /\ container \in {Container(2000, 1000, 2000, 100)}
    /\ \E cs \in PrepCargoLists : cargos = MakeCargos(cs)
    /\ rules \in PrepRuleSets
    /\ cargo_groups \in PrepGroupSets
    /\ rules = <<>> \/ cargo_groups = <<>>
    /\ Fresh
    /\ twin_weight = 0
    /\ container_count = 0

PrepFrame ==
    UNCHANGED <<container, cargos, rules, cargo_groups, idx, placed_cargos,
                step_counter, loaded, not_loaded, twin_weight, twin_placed,
                twin_not_loaded, container_count, container_idx, container_results,
                view, palletizer>>

\* line 754: processed_cargos = self.expand_groups(cargos)
PrepExpandGroups ==
    /\ pc = "start"
    /\ processed_cargos' = expand_groups(cargo_groups, cargos)
    /\ pc' = "expanded"
    /\ UNCHANGED <<expanded, sorted_cargos>>
    /\ PrepFrame

\* lines 757-763: the quantity expansion
PrepUnfold ==
    /\ pc = "expanded"
    /\ expanded' = ExpandQuantity(processed_cargos)
    /\ pc' = "unfolded"
    /\ UNCHANGED <<processed_cargos, sorted_cargos>>
    /\ PrepFrame

\* line 766: sorted_cargos = self.apply_rules(sorted_cargos)
PrepApplyRules ==
    /\ pc = "unfolded"
    /\ sorted_cargos' = apply_rules(EffectiveRules(rules), expanded)
    /\ pc' = "sorted"
    /\ UNCHANGED <<processed_cargos, expanded>>
    /\ PrepFrame

\* apply_rules applied to its own result
PrepApplyAgain ==
    /\ pc = "sorted"
    /\ sorted_cargos' = apply_rules(EffectiveRules(rules), sorted_cargos)
    /\ pc' = "resorted"
    /\ UNCHANGED <<processed_cargos, expanded>>
    /\ PrepFrame

PrepNext == PrepExpandGroups \/ PrepUnfold \/ PrepApplyRules \/ PrepApplyAgain

PrepSpec == PrepInit /\ [][PrepNext]_vars

----------------------------------------------------------------------------
(* load_all on copies of one item: the rotation-optimization scenario       *)
(* (container 100 x 60 x 50, item 50 x 20 x 20), its neighbours, and a      *)
(* container 120 x 40 x 30 with the item 20 x 20 x 25                       *)

MaxCopies == 6

ScenarioContainers ==
    {Container(10000, 6000, 5000, 100000),
     Container(10000, 6000, 2000, 100000),
     Container(6000, 10000, 5000, 100000),
     Container(12000, 4000, 3000, 100000)}

ScenarioItemTypes ==
    {Item(5000, 2000, 2000, 100, TRUE, TRUE, FALSE, 0),
     Item(5000, 2000, 2000, 100, FALSE, TRUE, FALSE, 0),
     Item(2000, 2000, 2500, 100, TRUE, FALSE, FALSE, 0)}

ScenarioInit ==
    /\ container \in ScenarioContainers
    /\ \E t \in ScenarioItemTypes : \E q \in 1..MaxCopies :
          cargos = MakeCargos(<<[t |-> t, q |-> q]>>)
    /\ rules \in RuleSets
    /\ cargo_groups = <<>>
    /\ Fresh
    /\ twin_weight = 0
    /\ container_count = 0

ScenarioSpec == ScenarioInit /\ [][Next]_vars

----------------------------------------------------------------------------
(* LoadingAlgorithm.get_statistics: the weight fields *)

total_weight(placed) == SumSeq([i \in 1..Len(placed) |-> placed[i].cargo.weight])

\* weight_utilization, as the whole percent set on the weight progress bar
weight_utilization(cont, placed) ==
    IF cont.max_weight > 0 THEN (total_weight(placed) * 100) \div cont.max_weight ELSE 0

\* length * width * height as two digits in base 10000 (most significant
\* first): Cargo.volume and Container.volume
Volume(l, w, h) ==
    LET a == l * w
        lo == (a % 10000) * h
    IN  <<(a \div 10000) * h + lo \div 10000, lo % 10000>>

\* sum(p.cargo.volume for p in self.placed_cargos), in the same two digits
total_volume(placed) ==
    LET vs == [i \in 1..Len(placed) |->
                 Volume(placed[i].cargo.length, placed[i].cargo.width, placed[i].cargo.height)]
        lo == SumSeq([i \in 1..Len(placed) |-> vs[i][2]])
    IN  <<SumSeq([i \in 1..Len(placed) |-> vs[i][1]]) + lo \div 10000, lo % 10000>>

\* a percentage 100 * num / den, kept as the fraction
Percent(num, den) == [num |-> num, den |-> den]

\* calculate_center_of_gravity: the three coordinates as fractions x / den,
\* y / den, z / den; center_x = x + actual_length / 2 makes den twice the
\* total weight
calculate_center_of_gravity(placed) ==
    IF placed = <<>> \/ total_weight(placed) = 0
    THEN [x |-> 0, y |-> 0, z |-> 0, den |-> 1]
    ELSE [x |-> SumSeq([i \in 1..Len(placed) |->
                  (2 * placed[i].x + actual_length(placed[i])) * placed[i].cargo.weight]),
          y |-> SumSeq([i \in 1..Len(placed) |->
                  (2 * placed[i].y + actual_width(placed[i])) * placed[i].cargo.weight]),
          z |-> SumSeq([i \in 1..Len(placed) |->
                  (2 * placed[i].z + placed[i].cargo.height) * placed[i].cargo.weight]),
          den |-> 2 * total_weight(placed)]

\* calculate_center_offset: (cx - length / 2, cy - width / 2, cz - height / 2),
\* as fractions over twice the denominator of the centre of gravity
calculate_center_offset(cont, placed) ==
    LET cog == calculate_center_of_gravity(placed)
    IN  [x |-> 2 * cog.x - cog.den * cont.length,
         y |-> 2 * cog.y - cog.den * cont.width,
         z |-> 2 * cog.z - cog.den * cont.height,
         den |-> 2 * cog.den]

get_statistics(cont, placed) ==
    [loaded_count |-> Len(placed),
     total_volume |-> total_volume(placed),
     volume_utilization |->
        IF Volume(cont.length, cont.width, cont.height) # <<0, 0>>
        THEN Percent(total_volume(placed), Volume(cont.length, cont.width, cont.height))
        ELSE Percent(<<0, 0>>, <<0, 1>>),
     total_weight |-> total_weight(placed),
     weight_utilization |->
        IF cont.max_weight > 0 THEN Percent(total_weight(placed), cont.max_weight)
        ELSE Percent(0, 1),
     center_of_gravity |-> calculate_center_of_gravity(placed),
     center_offset |-> calculate_center_offset(cont, placed)]

\* start_single_container_loading, lines 3784-3793: the status shown with the
\* centre of gravity; max_offset = min(length, width) * 0.1
cog_status(cont, placed) ==
    LET offset == get_statistics(cont, placed).center_offset
        max_offset10 == Min(cont.length, cont.width)
    IN  IF 10 * Abs(offset.x) < max_offset10 * offset.den
           /\ 10 * Abs(offset.y) < max_offset10 * offset.den
        THEN "good" ELSE "biased"

----------------------------------------------------------------------------
(* Properties of load_all.  The geometric predicates below are written     *)
(* from the statements, independently of can_place.                        *)

PlacedIdx == 1..Len(placed_cargos)

BoxL(p) == IF p.rotated THEN p.cargo.width ELSE p.cargo.length
BoxW(p) == IF p.rotated THEN p.cargo.length ELSE p.cargo.width

\* on some axis one box ends, within 0.01, before the other begins
Separated(a, b) ==
    \/ a.x + BoxL(a) <= b.x + Tol
    \/ b.x + BoxL(b) <= a.x + Tol
    \/ a.y + BoxW(a) <= b.y + Tol
    \/ b.y + BoxW(b) <= a.y + Tol
    \/ a.z + a.cargo.height <= b.z + Tol
    \/ b.z + b.cargo.height <= a.z + Tol

Span(a1, a2, b1, b2) ==
    LET lo == IF a1 >= b1 THEN a1 ELSE b1
        hi == IF a2 <= b2 THEN a2 ELSE b2
    IN  IF hi > lo THEN hi - lo ELSE 0

\* the footprint area of placement i resting on the tops of other placements
RestingArea(i) ==
    LET p == placed_cargos[i]
    IN  SumSeq([j \in PlacedIdx |->
          LET q == placed_cargos[j]
              d == q.z + q.cargo.height - p.z
          IN  IF j # i /\ d > -SupportTol /\ d < SupportTol
              THEN Span(p.x, p.x + BoxL(p), q.x, q.x + BoxL(q))
                   * Span(p.y, p.y + BoxW(p), q.y, q.y + BoxW(q))
              ELSE 0])

\* C1: in every state of load_all (so after every place_cargo commit, grid
\* fallback included) any two distinct placements are separated on some axis
\* within the tolerance 0.01
C1_NoOverlap ==
    \A i \in PlacedIdx : \A j \in PlacedIdx :
        i < j => Separated(placed_cargos[i], placed_cargos[j])

\* a commit that only the grid fallback can find (a box on top of a
\* non-stackable one) next to a pair of boxes that touch face to face
C1_Witness ==
    /\ Len(placed_cargos) >= 3
    /\ \E i \in PlacedIdx : \E j \in PlacedIdx :
          /\ ~placed_cargos[j].cargo.stackable
          /\ placed_cargos[i].z = placed_cargos[j].z + placed_cargos[j].cargo.height
          /\ placed_cargos[i].x = placed_cargos[j].x
          /\ placed_cargos[i].y = placed_cargos[j].y
    /\ \E i \in PlacedIdx : \E j \in PlacedIdx :
          placed_cargos[i].x + BoxL(placed_cargos[i]) = placed_cargos[j].x

\* C2: every placement lies inside the container: anchor non-negative and
\* every far face at most 0.01 beyond the container's
C2_InBounds ==
    \A i \in PlacedIdx :
        LET p == placed_cargos[i]
        IN  /\ p.x >= 0 /\ p.y >= 0 /\ p.z >= 0
            /\ p.x + BoxL(p) <= container.length + Tol
            /\ p.y + BoxW(p) <= container.width + Tol
            /\ p.z + p.cargo.height <= container.height + Tol

\* a rotated placement whose far face uses the tolerance
C2_Witness ==
    \E i \in PlacedIdx :
        LET p == placed_cargos[i]
        IN  /\ p.rotated
            /\ \/ p.x + BoxL(p) = container.length + Tol
               \/ p.y + BoxW(p) = container.width + Tol

\* C3: every placement with z > 0 rests, for at least 70% of its footprint,
\* on placements whose top is within 0.1 of its z; as this is an invariant,
\* no later commit takes the support of an earlier placement away
C3_Supported ==
    \A i \in PlacedIdx :
        placed_cargos[i].z > 0 =>
            10 * RestingArea(i)
              >= 7 * BoxL(placed_cargos[i]) * BoxW(placed_cargos[i])

\* a stacked placement that overhangs its supporters (support below 100%),
\* followed by a later commit
C3_Witness ==
    \E i \in PlacedIdx :
        /\ placed_cargos[i].z > 0
        /\ RestingArea(i) < BoxL(placed_cargos[i]) * BoxW(placed_cargos[i])
        /\ i < Len(placed_cargos)

\* C4: when every input item is non-stackable, every placement is on the floor
C4_NonStackableFloorOnly ==
    (\A k \in 1..Len(cargos) : ~cargos[k].stackable)
        => \A i \in PlacedIdx : placed_cargos[i].z = 0

\* C5: a bottom_only item is never placed above z = 0.01; after load_all each
\* bottom_only singleton is either placed at z <= 0.01 or in the unplaced list
C5_BottomOnly ==
    /\ \A i \in PlacedIdx :
          placed_cargos[i].cargo.bottom_only => placed_cargos[i].z <= Tol
    /\ pc = "done" =>
          \A k \in 1..Len(expanded) :
              expanded[k].bottom_only =>
                  \/ \E i \in 1..Len(loaded) :
                        loaded[i].cargo = expanded[k] /\ loaded[i].z <= Tol
                  \/ \E i \in 1..Len(not_loaded) : not_loaded[i] = expanded[k]

\* load_all has ended with a bottom_only item unplaced although the same item
\* without the flag would fit on top of a placement
C5_Witness ==
    /\ pc = "done"
    /\ \E i \in 1..Len(not_loaded) :
          /\ not_loaded[i].bottom_only
          /\ \E j \in PlacedIdx :
                LET q == placed_cargos[j]
                    free == [not_loaded[i] EXCEPT !.bottom_only = FALSE]
                IN  \E r \in {TRUE, FALSE} :
                      CanPlace(container, placed_cargos, free,
                               q.x, q.y, q.z + q.cargo.height, r)

\* C6: a placement is rotated only if its item allows rotation
C6_RotatedOnlyIfAllowed ==
    \A i \in PlacedIdx :
        placed_cargos[i].rotated => placed_cargos[i].cargo.allow_rotate

\* a rotated placement next to an un-rotated placement of a non-rotatable
\* item, one of them committed by the grid fallback
C6_Witness ==
    /\ \E i \in PlacedIdx : placed_cargos[i].rotated
    /\ \E i \in PlacedIdx : ~placed_cargos[i].cargo.allow_rotate
    /\ \E i \in PlacedIdx : \E j \in PlacedIdx :
          /\ ~placed_cargos[j].cargo.stackable
          /\ placed_cargos[i].z = placed_cargos[j].z + placed_cargos[j].cargo.height

\* C7: the step numbers of the placements are 1, 2, ..., |placed| in commit
\* order, the returned list is the list of commits, and step_counter counts
\* the commits only
C7_StepNumbers ==
    /\ \A i \in PlacedIdx : placed_cargos[i].step_number = i
    /\ loaded = placed_cargos
    /\ step_counter = Len(placed_cargos)

\* an item failed and a later item was committed
C7_Witness ==
    /\ pc = "done"
    /\ \E i \in 1..Len(not_loaded) : \E j \in 1..Len(loaded) :
          \E a \in 1..Len(sorted_cargos) : \E b \in 1..Len(sorted_cargos) :
              /\ sorted_cargos[a] = not_loaded[i]
              /\ sorted_cargos[b] = loaded[j].cargo
              /\ a < b
    /\ Len(loaded) >= 2

\* the singletons load_all has accounted for or still has to attempt
Accounted ==
    [i \in 1..Len(loaded) |-> loaded[i].cargo]
    \o not_loaded
    \o SubSeq(sorted_cargos, idx + 1, Len(sorted_cargos))

C8_Inv ==
    /\ pc \in {"start", "loop", "done"}
    /\ pc = "loop" => idx <= Len(sorted_cargos)
    /\ pc \in {"loop", "done"} =>
          /\ Len(Accounted) = Len(expanded)
          /\ \A k \in 1..Len(expanded) :
                Cardinality({i \in 1..Len(Accounted) : Accounted[i] = expanded[k]}) = 1
    /\ pc = "done" => idx = Len(sorted_cargos)

\* every step of load_all begins the loop, moves it on by one item of the
\* (unchanged, finite) list, or returns
C8_Progress ==
    \/ pc = "start" /\ pc' = "loop" /\ idx' = 0
    \/ /\ pc = "loop" /\ pc' = "loop"
       /\ sorted_cargos' = sorted_cargos
       /\ idx' = idx + 1
       /\ Len(loaded') + Len(not_loaded') = idx'
    \/ pc = "loop" /\ pc' = "done" /\ idx = Len(sorted_cargos)

\* C8: load_all runs to its return (its loop is always at an item of the list
\* or at its end, and every step moves it on); while it runs every singleton
\* of the expansion is exactly once among the placed, the unplaced and the
\* items still to attempt, and when it returns none is left to attempt, so
\* each is in exactly one of the two returned lists; a failed item goes to
\* the unplaced list and the loop continues
C8_Partition == []C8_Inv /\ [][C8_Progress]_vars

\* load_all has returned; an item too large for the empty container and an
\* item with no feasible position left are unplaced, and an item attempted
\* after a failed one is placed
C8_Witness ==
    /\ pc = "done"
    /\ \E i \in 1..Len(not_loaded) :
          \A r \in {TRUE, FALSE} : ~CanPlace(container, <<>>, not_loaded[i], 0, 0, 0, r)
    /\ \E i \in 1..Len(not_loaded) :
          \E r \in {TRUE, FALSE} : CanPlace(container, <<>>, not_loaded[i], 0, 0, 0, r)
    /\ \E i \in 1..Len(not_loaded) : \E j \in 1..Len(loaded) :
          \E a \in 1..Len(sorted_cargos) : \E b \in 1..Len(sorted_cargos) :
              /\ sorted_cargos[a] = not_loaded[i]
              /\ sorted_cargos[b] = loaded[j].cargo
              /\ a < b

\* C9: two runs of load_all on the same items, rules and groups in
\* containers that differ only in max_weight have the same placements and
\* the same unplaced items at every step
C9_WeightNeverConsulted ==
    /\ twin_placed = placed_cargos
    /\ twin_not_loaded = not_loaded

\* both runs have returned with at least two placements whose weights sum
\* to more than the smaller max_weight, which the statistics report as a
\* utilization above 100, while the other container is within its limit
C9_Witness ==
    /\ pc = "done"
    /\ Len(placed_cargos) >= 2
    /\ \E a \in {container, TwinContainer} : \E b \in {container, TwinContainer} :
          /\ total_weight(placed_cargos) > a.max_weight
          /\ weight_utilization(a, placed_cargos) > 100
          /\ total_weight(placed_cargos) <= b.max_weight
          /\ weight_utilization(b, placed_cargos) <= 100

\* the ids of the singletons placed in the recorded results, container by
\* container, followed by the ids of the remainder
PlacedIds ==
    Concat([k \in 1..Len(container_results) |->
              [i \in 1..Len(container_results[k].placed_cargos) |->
                  container_results[k].placed_cargos[i].cargo.id]])

RemainingIds == [i \in 1..Len(sorted_cargos) |-> sorted_cargos[i].id]

Count(seq, v) == Cardinality({i \in 1..Len(seq) : seq[i] = v})

\* C10: when multi-container loading completes, every singleton id of the
\* quantity expansion occurs exactly as often among the placements of all
\* results together with the remainder as in the expansion (once), and
\* nothing else occurs there: no singleton is placed twice or lost
C10_Conservation ==
    pc = "done" =>
        /\ Len(PlacedIds \o RemainingIds) = Len(expanded)
        /\ \A k \in 1..Len(expanded) :
              Count(PlacedIds \o RemainingIds, expanded[k].id)
                = Count([i \in 1..Len(expanded) |-> expanded[i].id], expanded[k].id)
        /\ \A i \in 1..Len(PlacedIds) : Count(PlacedIds, PlacedIds[i]) = 1

\* completed with placements in two containers and a non-empty remainder
C10_Witness ==
    /\ pc = "done"
    /\ Len(container_results) >= 2
    /\ \A k \in 1..Len(container_results) : container_results[k].placed_cargos # <<>>
    /\ sorted_cargos # <<>>

\* C11: in multi-container loading the items of the remainder are attempted,
\* in every container, in the order apply_rules gives for that remainder
\* under the enabled rules
C11_RulesPerContainer ==
    pc = "place" =>
        sorted_cargos = apply_rules(EffectiveRules(rules), sorted_cargos)

----------------------------------------------------------------------------
(* Properties of the manual-edit interface *)

\* a step that is one manual-edit call (translate, rotate or drag)
EditStep == edit_count' = edit_count + 1

\* C12: after any sequence of manual edits of a placement set produced by
\* the driver, every placement lies within the container up to 0.01
C12_EditsInBounds ==
    pc = "done" =>
        \A i \in PlacedIdx :
            LET p == placed_cargos[i]
            IN  /\ p.x >= -Tol /\ p.y >= -Tol /\ p.z >= -Tol
                /\ p.x + BoxL(p) <= container.length + Tol
                /\ p.y + BoxW(p) <= container.width + Tol
                /\ p.z + p.cargo.height <= container.height + Tol

NoOverlapIn(list) ==
    \A i \in 1..Len(list) : \A j \in 1..Len(list) :
        i < j => Separated(list[i], list[j])

\* C13: with collision checking enabled, an accepted manual edit of a
\* non-overlapping placement set leaves it non-overlapping at tolerance 0.01
C13_EditsKeepNoOverlap ==
    [][(EditStep /\ collision_enabled /\ last_edit'.result
          /\ NoOverlapIn(placed_cargos))
        => NoOverlapIn(placed_cargos')]_vars

\* C14: after an accepted move_selected_cargo on a placement set produced by
\* the driver, every placement above the floor still rests on placements
\* for at least 70% of its footprint
C14_MoveKeepsSupport ==
    (edit_count = 1 /\ last_edit.op = "move" /\ last_edit.result) =>
        \A i \in PlacedIdx :
            placed_cargos[i].z > 0 =>
                10 * RestingArea(i)
                  >= 7 * BoxL(placed_cargos[i]) * BoxW(placed_cargos[i])

\* C15: a manual edit changes nothing but x, y, z and rotated of the
\* selected placement: the list keeps its length and order, every placement
\* its item, step_number and container_index
C15_EditsKeepOrder ==
    [][EditStep =>
        /\ Len(placed_cargos') = Len(placed_cargos)
        /\ \A i \in PlacedIdx :
              /\ placed_cargos'[i].cargo = placed_cargos[i].cargo
              /\ placed_cargos'[i].step_number = placed_cargos[i].step_number
              /\ placed_cargos'[i].container_index = placed_cargos[i].container_index
              /\ i # selected_cargo_index + 1 => placed_cargos'[i] = placed_cargos[i]]_vars

\* an accepted rotation after an earlier edit has lifted another placement
\* of the list off its support, which still carries its step number
C15_Witness ==
    /\ edit_count >= 2
    /\ last_edit = [op |-> "rotate", result |-> TRUE]
    /\ Len(placed_cargos) >= 2
    /\ \E i \in PlacedIdx :
          /\ i # selected_cargo_index + 1
          /\ placed_cargos[i].step_number = i
          /\ placed_cargos[i].z > 0
          /\ RestingArea(i) = 0

\* C16: a move_selected_cargo or rotate_selected_cargo call that returns
\* False leaves x, y, z and rotated of every placement as they were
C16_RejectedEditNoChange ==
    [][(EditStep /\ last_edit'.op \in {"move", "rotate"} /\ ~last_edit'.result)
        => placed_cargos' = placed_cargos]_vars

\* a rotation of a rotatable, selected placement has just been rejected (no
\* free position in the neighbourhood) after an earlier edit call, in a state
\* where a move of the selection by 1 cm is rejected for a collision too
C16_Witness ==
    /\ edit_count >= 2
    /\ last_edit = [op |-> "rotate", result |-> FALSE]
    /\ collision_enabled
    /\ ValidSelection(placed_cargos, selected_cargo_index)
    /\ placed_cargos[selected_cargo_index + 1].cargo.allow_rotate
    /\ \E d \in Directions :
          ~move_selected_cargo(container, placed_cargos, selected_cargo_index,
                               TRUE, d[1] * 100, d[2] * 100, d[3] * 100).ok

----------------------------------------------------------------------------
(* Properties of apply_rules and of the expansion.  The sort keys below    *)
(* are written from the statements, with the volume in two digits of base  *)
(* 1000.                                                                   *)

\* the enabled rules of rs in descending priority
RulesByPriority(rs) ==
    LET en == {i \in 1..Len(rs) : rs[i].enabled}
        before(i, j) ==
            rs[i].priority > rs[j].priority \/ (rs[i].priority = rs[j].priority /\ i < j)
    IN  [r \in 1..Cardinality(en) |->
            rs[CHOOSE i \in en : Cardinality({j \in en : before(j, i)}) = r - 1]]

\* the multiple of 10 cm nearest to d, the even one of two equally near
SizeBucket(d) ==
    LET near == {b \in {1000 * k : k \in 0..(d \div 1000 + 1)} : Abs(d - b) <= 500}
    IN  CHOOSE b \in near :
            \A c \in near : c = b \/ Abs(d - b) < Abs(d - c)
                            \/ (Abs(d - b) = Abs(d - c) /\ (b \div 1000) % 2 = 0)

\* -volume, as <<-(volume \div 1000), -(volume % 1000)>>
VolumeKey(c) ==
    LET a == c.length * c.width
        rest == (a % 1000) * c.height
    IN  <<-((a \div 1000) * c.height + rest \div 1000), -(rest % 1000)>>

KeyPart(rule, c) ==
    IF rule.id = "priority_first" THEN <<-c.priority>>
    ELSE IF rule.id = "heavy_bottom"
         THEN <<IF c.weight >= rule.weight_threshold THEN 0 ELSE 1, -c.weight>>
    ELSE IF rule.id = "similar_stack" THEN <<-c.length>>
    ELSE IF rule.id = "same_size"
         THEN <<-SizeBucket(c.length), -SizeBucket(c.width), -SizeBucket(c.height)>>
    ELSE IF rule.id = "volume_first" THEN VolumeKey(c)
    ELSE <<>>

ClaimKey(c) ==
    LET rs == RulesByPriority(EffectiveRules(rules))
    IN  Concat([i \in 1..Len(rs) |-> KeyPart(rs[i], c)])

PrepSorted == pc \in {"sorted", "resorted"}

PositionIn(seq, v) == CHOOSE i \in 1..Len(seq) : seq[i] = v

C17_Inv ==
    PrepSorted =>
        /\ Len(sorted_cargos) = Len(expanded)
        /\ \A k \in 1..Len(expanded) :
              Count(sorted_cargos, expanded[k]) = Count(expanded, expanded[k])
        /\ \A i \in 1..Len(expanded) : \A j \in 1..Len(expanded) :
              (i < j /\ ClaimKey(expanded[i]) = ClaimKey(expanded[j]))
                => PositionIn(sorted_cargos, expanded[i])
                     < PositionIn(sorted_cargos, expanded[j])

C17_Idempotent == pc' = "resorted" => sorted_cargos' = sorted_cargos

\* C17: apply_rules returns a permutation of its input in which items with
\* equal composite keys keep their input order, and applied to its own
\* result it returns that result, for every item list and rule list
C17_StableIdempotent == []C17_Inv /\ [][C17_Idempotent]_vars

\* apply_rules has been applied twice to a list it had to reorder, in which
\* two items tie on every key
C17_Witness ==
    /\ pc = "resorted"
    /\ sorted_cargos # expanded
    /\ \E i \in 1..Len(expanded) : \E j \in 1..Len(expanded) :
          i < j /\ ClaimKey(expanded[i]) = ClaimKey(expanded[j])
    /\ ClaimKey(expanded[1]) # <<>>

\* C18: the result of apply_rules is ascending in the concatenation of the
\* enabled rules' keys taken in descending rule priority (a disabled rule
\* gives no key); under the default rules an item of higher priority comes
\* before every item of lower priority
C18_KeyOrder ==
    PrepSorted =>
        /\ \A i \in 1..Len(sorted_cargos) : \A j \in 1..Len(sorted_cargos) :
              i < j => ~LexLess(ClaimKey(sorted_cargos[j]), ClaimKey(sorted_cargos[i]))
        /\ EffectiveRules(rules) = DEFAULT_RULES =>
              \A i \in 1..Len(sorted_cargos) : \A j \in 1..Len(sorted_cargos) :
                  sorted_cargos[i].priority > sorted_cargos[j].priority => i < j

\* under the default rules an item of higher priority that is lighter,
\* shorter and smaller than another, and came after it, has been put first
C18_Witness ==
    /\ PrepSorted
    /\ EffectiveRules(rules) = DEFAULT_RULES
    /\ \E i \in 1..Len(sorted_cargos) : \E j \in 1..Len(sorted_cargos) :
          LET a == sorted_cargos[i]
              b == sorted_cargos[j]
          IN  /\ i < j
              /\ a.priority > b.priority
              /\ a.weight < b.weight /\ a.length < b.length
              /\ LexLess(VolumeKey(b), VolumeKey(a))
              /\ PositionIn(expanded, b) < PositionIn(expanded, a)

Dims(c) == <<c.length, c.width, c.height>>

\* C19: with no group, the expansion holds for every input item of quantity
\* q exactly q singletons of quantity 1 with its dimensions and weight and
\* the ids <id>_0 .. <id>_(q-1), and nothing else: each dimension triple
\* occurs as often as the quantities of the input items with it add up to
C19_Unfolding ==
    (cargo_groups = <<>> /\ pc \in {"unfolded", "sorted", "resorted"}) =>
        /\ Len(expanded) = SumSeq([k \in 1..Len(cargos) |-> cargos[k].quantity])
        /\ \A k \in 1..Len(cargos) : \A i \in 0..(cargos[k].quantity - 1) :
              /\ Cardinality({n \in 1..Len(expanded) :
                                expanded[n].id = <<cargos[k].id, i>>}) = 1
              /\ \A n \in 1..Len(expanded) :
                    expanded[n].id = <<cargos[k].id, i>> =>
                        /\ expanded[n].quantity = 1
                        /\ Dims(expanded[n]) = Dims(cargos[k])
                        /\ expanded[n].weight = cargos[k].weight
        /\ \A k \in 1..Len(cargos) :
              Cardinality({n \in 1..Len(expanded) : Dims(expanded[n]) = Dims(cargos[k])})
                = SumSeq([j \in 1..Len(cargos) |->
                            IF Dims(cargos[j]) = Dims(cargos[k])
                            THEN cargos[j].quantity ELSE 0])

\* two input items of the same dimensions, one of them with a quantity of
\* two or more, have been unfolded
C19_Witness ==
    /\ cargo_groups = <<>>
    /\ pc = "unfolded"
    /\ Len(cargos) >= 2
    /\ Dims(cargos[1]) = Dims(cargos[2])
    /\ cargos[1].quantity >= 2

MemberIdx(g) == {k \in 1..Len(cargos) : cargos[k].id \in cargo_groups[g].cargo_ids}

Ungrouped ==
    {k \in 1..Len(cargos) :
        \A g \in 1..Len(cargo_groups) : cargos[k].id \notin cargo_groups[g].cargo_ids}

\* C20: the result of expand_groups holds, for each group with a member
\* present, exactly one synthetic item (quantity 1, the group's id, stackable
\* iff every member is; without an explicit box: the largest member length
\* and width, the sum of the member heights and weights), none for a group
\* without members, no group member, and the items of no group unchanged in
\* their input order
C20_Groups ==
    pc # "start" =>
        /\ \A g \in 1..Len(cargo_groups) :
              LET syn == {n \in 1..Len(processed_cargos) :
                            processed_cargos[n].group_id = cargo_groups[g].id}
              IN  IF MemberIdx(g) = {} THEN syn = {}
                  ELSE /\ Cardinality(syn) = 1
                       /\ \A n \in syn :
                             LET c == processed_cargos[n]
                             IN  /\ c.quantity = 1
                                 /\ c.stackable = (\A k \in MemberIdx(g) : cargos[k].stackable)
                                 /\ cargo_groups[g].combined_length = 0 =>
                                       /\ \A k \in MemberIdx(g) :
                                             /\ c.length >= cargos[k].length
                                             /\ c.width >= cargos[k].width
                                       /\ \E k \in MemberIdx(g) : c.length = cargos[k].length
                                       /\ \E k \in MemberIdx(g) : c.width = cargos[k].width
                                       /\ c.height = SumSeq([k \in 1..Len(cargos) |->
                                             IF k \in MemberIdx(g) THEN cargos[k].height ELSE 0])
                                       /\ c.weight = SumSeq([k \in 1..Len(cargos) |->
                                             IF k \in MemberIdx(g) THEN cargos[k].weight ELSE 0])
        /\ \A n \in 1..Len(processed_cargos) : \A k \in 1..Len(cargos) :
              k \notin Ungrouped => processed_cargos[n].id # cargos[k].id
        /\ SelectSeqIdx(processed_cargos,
                        {n \in 1..Len(processed_cargos) : processed_cargos[n].group_id = 0})
             = SelectSeqIdx(cargos, Ungrouped)

\* a group of two members that differ in length, width, height and
\* stackability has been replaced by its synthetic item
C20_Witness ==
    /\ pc = "expanded"
    /\ \E g \in 1..Len(cargo_groups) :
          /\ cargo_groups[g].combined_length = 0
          /\ \E a \in MemberIdx(g) : \E b \in MemberIdx(g) :
                /\ cargos[a].length < cargos[b].length
                /\ cargos[a].width > cargos[b].width
                /\ cargos[a].height # cargos[b].height
                /\ cargos[a].stackable # cargos[b].stackable
          /\ \E n \in 1..Len(processed_cargos) :
                processed_cargos[n].group_id = cargo_groups[g].id

----------------------------------------------------------------------------
(* ContainerLoadingApp.palletize_cargos and _palletize_with_3d_algorithm.   *)
(* placed_items holds records [x, y, z, l, w, h] for the code's tuples.     *)

MaxPalletItems == 2
MaxPalletQty == 2

ScanLimit == 500      \* the scan step is at most 5 cm

\* the pallet parameters of the dialog (QSpinBox values in cm, kg): length,
\* width, deck height, total height and load
PalletSpecs ==
    {[pallet_l |-> 5000, pallet_w |-> 5000, base_h |-> 1500, max_h |-> 7500, max_wt |-> 1000],
     [pallet_l |-> 6000, pallet_w |-> 5000, base_h |-> 1000, max_h |-> 5000, max_wt |-> 5000]}

PalletItemTypes ==
    {Item(5000, 5000, 4000, 300, TRUE, FALSE, FALSE, 0),
     Item(5000, 5000, 3000, 200, TRUE, FALSE, TRUE,  0),
     Item(3000, 2000, 2000, 100, TRUE, TRUE,  FALSE, 0),
     Item(2000, 6000, 1000, 600, TRUE, TRUE,  FALSE, 0),
     Item(7000, 7000, 1000, 100, TRUE, TRUE,  FALSE, 0)}

PalletCargoLists ==
    UNION {[1..k -> [t : PalletItemTypes, q : 1..MaxPalletQty]] : k \in 1..MaxPalletItems}

\* lines 4436-4437: min(c / 2, 5); the dimensions of the catalogue are even
scan_step(c) == Min(c \div 2, ScanLimit)

\* the values v = lo, lo + step, ... of a loop `while v <= lo + span + 0.01`
ScanValues(lo, span, step) == {lo + k * step : k \in 0..((span + Tol) \div step)}

\* lines 4416-4459: the extreme points, the floor scan and the scan of the tops
ExtremePoints(items, c_l, c_w, c_h, pallet_l, pallet_w, max_h) ==
    {<<0, 0, 0>>}
    \cup UNION {LET it == items[i]
                IN  {<<it.x + it.l, it.y, it.z>>,
                     <<it.x, it.y + it.w, it.z>>,
                     <<it.x, it.y, it.z + it.h>>,
                     <<it.x + it.l, it.y, 0>>,
                     <<it.x, it.y + it.w, 0>>,
                     <<it.x + it.l, it.y + it.w, 0>>,
                     <<it.x + it.l, it.y + it.w, it.z>>} : i \in 1..Len(items)}
    \cup {<<x, y, 0>> : x \in ScanValues(0, pallet_l - c_l, scan_step(c_l)),
                        y \in ScanValues(0, pallet_w - c_w, scan_step(c_w))}
    \cup UNION {LET it == items[i]
                    top_z == it.z + it.h
                IN  IF top_z + c_h <= max_h + Tol
                    THEN {<<sx, sy, top_z>> :
                             sx \in ScanValues(it.x, it.l - c_l, scan_step(c_l)),
                             sy \in ScanValues(it.y, it.w - c_w, scan_step(c_w))}
                    ELSE {} : i \in 1..Len(items)}

\* lines 4496-4510
check_support(x, y, z, l, w, items) ==
    LET support_area ==
          SumSeq([i \in 1..Len(items) |->
              IF Abs(items[i].z + items[i].h - z) < SupportTol
              THEN Overlap(x, x + l, items[i].x, items[i].x + items[i].l)
                   * Overlap(y, y + w, items[i].y, items[i].y + items[i].w)
              ELSE 0])
    IN  SupportDen * support_area >= SupportNum * l * w

\* lines 4465-4492: the checks on one candidate
PalletCandidateOk(items, c, c_l, c_w, c_h, pallet_l, pallet_w, max_h) ==
    /\ ~(c[1] < -Tol \/ c[2] < -Tol \/ c[3] < -Tol)
    /\ ~(c[1] + c_l > pallet_l + Tol \/ c[2] + c_w > pallet_w + Tol
           \/ c[3] + c_h > max_h + Tol)
    /\ ~\E i \in 1..Len(items) :
           /\ c[1] < items[i].x + items[i].l /\ c[1] + c_l > items[i].x
           /\ c[2] < items[i].y + items[i].w /\ c[2] + c_w > items[i].y
           /\ c[3] < items[i].z + items[i].h /\ c[3] + c_h > items[i].z
    /\ c[3] > Tol => check_support(c[1], c[2], c[3], c_l, c_w, items)

\* lines 4408-4494: the first candidate in the order (z, y, x) that passes
find_position_on_pallet(items, c_l, c_w, c_h, pallet_l, pallet_w, max_h) ==
    LET ok == {c \in ExtremePoints(items, c_l, c_w, c_h, pallet_l, pallet_w, max_h) :
                  PalletCandidateOk(items, c, c_l, c_w, c_h, pallet_l, pallet_w, max_h)}
    IN  IF ok = {} THEN [found |-> FALSE, x |-> 0, y |-> 0, z |-> 0]
        ELSE LET c == CHOOSE c \in ok : \A d \in ok :
                          c = d \/ LexLess(<<c[3], c[2], c[1]>>, <<d[3], d[2], d[1]>>)
             IN  [found |-> TRUE, x |-> c[1], y |-> c[2], z |-> c[3]]

\* lines 4331-4351: the attempt of one orientation of a cargo
PalletAttempt(p, st, cargo, rotated) ==
    LET c_l == EffLength(cargo, rotated)
        c_w == EffWidth(cargo, rotated)
        c_h == cargo.height
    IN  IF ~cargo.allow_rotate /\ rotated THEN [found |-> FALSE, x |-> 0, y |-> 0, z |-> 0]
        ELSE IF c_l > p.pallet_l \/ c_w > p.pallet_w \/ c_h > p.content_max_h
             THEN [found |-> FALSE, x |-> 0, y |-> 0, z |-> 0]
        ELSE IF st.current_weight + cargo.weight > p.max_wt
             THEN [found |-> FALSE, x |-> 0, y |-> 0, z |-> 0]
        ELSE find_position_on_pallet(st.placed_items, c_l, c_w, c_h,
                                     p.pallet_l, p.pallet_w, p.content_max_h)

\* lines 4353-4368: the position found is committed to the pallet
PalletCommit(st, cargo, rotated, pos) ==
    [st EXCEPT
       !.placed_items = Append(@, [x |-> pos.x, y |-> pos.y, z |-> pos.z,
                                   l |-> EffLength(cargo, rotated),
                                   w |-> EffWidth(cargo, rotated), h |-> cargo.height]),
       !.current_weight = @ + cargo.weight,
       !.pallet_contents = Append(@, [cargo |-> cargo, x |-> pos.x, y |-> pos.y,
                                      z |-> pos.z, rotated |-> rotated, quantity |-> 1]),
       !.made_progress = TRUE]

\* lines 4327-4371: the body of `for cargo in remaining`
PalletTry(p, st, cargo) ==
    LET plain == PalletAttempt(p, st, cargo, FALSE)
        turned == PalletAttempt(p, st, cargo, TRUE)
    IN  IF plain.found THEN PalletCommit(st, cargo, FALSE, plain)
        ELSE IF turned.found THEN PalletCommit(st, cargo, TRUE, turned)
        ELSE [st EXCEPT !.still_remaining = Append(@, cargo)]

\* lines 4324-4373: one pass over the remaining cargos
RECURSIVE PalletPassFrom(_, _, _)
PalletPassFrom(p, st, rest) ==
    IF rest = <<>> THEN st
    ELSE PalletPassFrom(p, PalletTry(p, st, Head(rest)), Tail(rest))

actual_heightOfLast(base_h, items) ==
    IF items = <<>> THEN base_h
    ELSE base_h + items[Len(items)].z + items[Len(items)].h

\* lines 4378-4381
actual_height(base_h, items) ==
    LET F[i \in 0..Len(items)] ==
          IF i = 0 THEN base_h
          ELSE Max(F[i - 1], base_h + items[i].z + items[i].h)
    IN  F[Len(items)]

\* lines 4383-4396: the pallet item
PalletCargo(p, count, contents, items, weight) ==
    [name |-> count, length |-> p.pallet_l, width |-> p.pallet_w,
     height |-> actual_height(p.base_h, items), weight |-> weight, quantity |-> 1,
     stackable |-> TRUE, allow_rotate |-> TRUE, bottom_only |-> FALSE, priority |-> 0,
     group_id |-> 0, is_pallet |-> TRUE, pallet_base_height |-> p.base_h,
     pallet_contents |-> contents,
     original_cargos |-> [i \in 1..Len(contents) |-> contents[i].cargo]]

\* -c.volume, the key of remaining.sort(key=volume, reverse=True): a
\* reversed sort keeps the input order of equal keys
SortByVolume(cs) == StableSort(cs, [i \in 1..Len(cs) |-> NegVolume(cs[i])])

\* the state the palletizer does not touch
PalletFrame ==
    UNCHANGED <<container, cargos, rules, cargo_groups, pc, sorted_cargos, idx,
                placed_cargos, step_counter, loaded, not_loaded, twin_weight,
                twin_placed, twin_not_loaded, container_count, container_idx,
                container_results, expanded, processed_cargos, view>>

PalletInit ==
    /\ container \in {Container(2000, 1000, 2000, 100)}
    /\ \E cs \in PalletCargoLists : cargos = MakeCargos(cs)
    /\ rules = <<>>
    /\ cargo_groups = <<>>
    /\ Fresh
    /\ twin_weight = 0
    /\ container_count = 0

\* lines 4259-4291 and 4308-4313: the dialog is accepted with a selection;
\* the selected cargos are unfolded, copied and sorted by volume
PalletizeBegin ==
    /\ ppc = "idle"
    /\ \E d \in PalletSpecs : \E selected_indices \in SUBSET (1..Len(cargos)) :
          /\ selected_indices # {}
          /\ pallet' = [pallet_l |-> d.pallet_l, pallet_w |-> d.pallet_w,
                        base_h |-> d.base_h, content_max_h |-> d.max_h - d.base_h,
                        max_wt |-> d.max_wt]
          /\ selected_cargos' = ExpandQuantity(SelectSeqIdx(cargos, selected_indices))
    /\ selected_cargos' # <<>>
    /\ remaining' = SortByVolume(selected_cargos')
    /\ palletized' = <<>>
    /\ pallet_count' = 0
    /\ ppc' = "while"
    /\ UNCHANGED <<pallet_contents, current_weight, placed_items, made_progress>>
    /\ PalletFrame

\* lines 4315-4322: `while remaining` opens a new pallet
PalletOpen ==
    /\ ppc = "while"
    /\ remaining # <<>>
    /\ pallet_count' = pallet_count + 1
    /\ pallet_contents' = <<>>
    /\ current_weight' = 0
    /\ placed_items' = <<>>
    /\ made_progress' = TRUE
    /\ ppc' = "pass"
    /\ UNCHANGED <<pallet, selected_cargos, remaining, palletized>>
    /\ PalletFrame

\* lines 4323-4373: one pass of `while made_progress`
PalletPass ==
    /\ ppc = "pass"
    /\ made_progress
    /\ LET st == PalletPassFrom(pallet,
                     [placed_items |-> placed_items, current_weight |-> current_weight,
                      pallet_contents |-> pallet_contents, made_progress |-> FALSE,
                      still_remaining |-> <<>>],
                     remaining)
       IN  /\ placed_items' = st.placed_items
           /\ current_weight' = st.current_weight
           /\ pallet_contents' = st.pallet_contents
           /\ made_progress' = st.made_progress
           /\ remaining' = st.still_remaining
    /\ UNCHANGED <<pallet, selected_cargos, ppc, pallet_count, palletized>>
    /\ PalletFrame

PalletCloseNoBreak ==
    /\ ppc = "pass"
    /\ ~made_progress
    /\ palletized' = IF pallet_contents # <<>>
                     THEN Append(palletized,
                                 PalletCargo(pallet, pallet_count, pallet_contents,
                                             placed_items, current_weight))
                     ELSE palletized
    /\ ppc' = "while"
    /\ UNCHANGED <<pallet, selected_cargos, remaining, pallet_count, pallet_contents,
                   current_weight, placed_items, made_progress>>
    /\ PalletFrame

\* lines 4375-4404: the pallet item is appended; the loop ends when the
\* pallet stayed empty while cargos remain
PalletClose ==
    /\ ppc = "pass"
    /\ ~made_progress
    /\ palletized' = IF pallet_contents # <<>>
                     THEN Append(palletized,
                                 PalletCargo(pallet, pallet_count, pallet_contents,
                                             placed_items, current_weight))
                     ELSE palletized
    /\ ppc' = IF pallet_contents = <<>> /\ remaining # <<>> THEN "done" ELSE "while"
    /\ UNCHANGED <<pallet, selected_cargos, remaining, pallet_count, pallet_contents,
                   current_weight, placed_items, made_progress>>
    /\ PalletFrame

\* line 4406: `while remaining` ends, return palletized
PalletReturn ==
    /\ ppc = "while"
    /\ remaining = <<>>
    /\ ppc' = "done"
    /\ UNCHANGED <<pallet, selected_cargos, remaining, pallet_count, pallet_contents,
                   current_weight, placed_items, made_progress, palletized>>
    /\ PalletFrame

PalletNext == PalletizeBegin \/ PalletOpen \/ PalletPass \/ PalletClose \/ PalletReturn

PalletSpec == PalletInit /\ [][PalletNext]_vars


----------------------------------------------------------------------------
(* Properties of the statistics and of the rule selection *)

\* C23: for an empty item list load_all returns two empty lists and every
\* numeric field of get_statistics is zero: the count, the volume and weight
\* totals and utilizations, and every component of the centre of gravity
\* and of the centre offset
C23_EmptyInputZeros ==
    (pc = "done" /\ cargos = <<>>) =>
        LET stats == get_statistics(container, placed_cargos)
        IN  /\ loaded = <<>>
            /\ not_loaded = <<>>
            /\ stats.loaded_count = 0
            /\ stats.total_volume = <<0, 0>>
            /\ stats.volume_utilization.num = <<0, 0>>
            /\ stats.total_weight = 0
            /\ stats.weight_utilization.num = 0
            /\ stats.center_of_gravity.x = 0
            /\ stats.center_of_gravity.y = 0
            /\ stats.center_of_gravity.z = 0
            /\ stats.center_offset.x = 0
            /\ stats.center_offset.y = 0
            /\ stats.center_offset.z = 0

\* twice the weighted sum of the centres of the placements along the length
\* (TRUE) or the width (FALSE) of the container
Moment2(along) ==
    SumSeq([i \in PlacedIdx |->
        (IF along THEN 2 * placed_cargos[i].x + BoxL(placed_cargos[i])
                  ELSE 2 * placed_cargos[i].y + BoxW(placed_cargos[i]))
        * placed_cargos[i].cargo.weight])

PlacedWeight == SumSeq([i \in PlacedIdx |-> placed_cargos[i].cargo.weight])

\* |centre of gravity - dim / 2| < 0.1 * dim on one axis
WithinTenth(along, dim) ==
    IF PlacedWeight = 0 THEN 10 * dim < 2 * dim
    ELSE 10 * Abs(Moment2(along) - PlacedWeight * dim) < 2 * PlacedWeight * dim

\* C25: the status shown after single-container loading is good exactly
\* when |offset_x| < 0.1 * L and |offset_y| < 0.1 * W, each axis against its
\* own container dimension, and biased otherwise
C25_StatusPerAxis ==
    pc = "done" =>
        (cog_status(container, placed_cargos) = "good"
            <=> (WithinTenth(TRUE, container.length) /\ WithinTenth(FALSE, container.width)))

\* C30: when the rule list handed to the driver has no enabled rule (it is
\* empty or every rule is disabled), load_all attempts the singletons in
\* their expansion order; no default rule replaces the empty selection
C30_NoRuleKeepsOrder ==
    (pc \in {"loop", "done"} /\ \A i \in 1..Len(rules) : ~rules[i].enabled)
        => sorted_cargos = expanded

\* the orientation that puts more copies of c on the floor of the container
\* (un-rotated unless rotating puts strictly more), and the number it puts
FloorRotated(c) ==
    c.allow_rotate
    /\ (container.width \div c.length) * (container.length \div c.width)
         > (container.width \div c.width) * (container.length \div c.length)

FloorCopies(c) ==
    IF FloorRotated(c)
    THEN (container.width \div c.length) * (container.length \div c.width)
    ELSE (container.width \div c.width) * (container.length \div c.length)

\* C24: when the preselected orientation of an item tiles the floor with at
\* least as many copies as the item list holds (all of them copies of that
\* one item), load_all places every copy in that orientation on the floor;
\* so the six copies of 50 x 20 x 20 in 100 x 60 x 50 lie un-rotated at z = 0
C24_FloorFirst ==
    (pc = "done" /\ Len(cargos) = 1 /\ cargo_groups = <<>>
       /\ FloorCopies(cargos[1]) >= cargos[1].quantity) =>
        /\ Len(placed_cargos) = cargos[1].quantity
        /\ \A i \in PlacedIdx :
              /\ placed_cargos[i].z = 0
              /\ placed_cargos[i].rotated = FloorRotated(cargos[1])

----------------------------------------------------------------------------
(* Properties of find_position *)

AdmissibleRotations(cargo) == IF cargo.allow_rotate THEN {FALSE, TRUE} ELSE {FALSE}

\* the (candidate, orientation) pairs of get_candidate_positions that pass
\* can_place
PrimaryPairs(placed, cargo) ==
    UNION {{<<c, r>> : c \in {d \in get_candidate_positions(container, placed, cargo, r) :
                                CanPlace(container, placed, cargo, d[1], d[2], d[3], r)}} :
           r \in AdmissibleRotations(cargo)}

\* the (point, orientation) pairs of the 10-cm grid over the z-levels {0} and
\* the placement tops that pass can_place
GridPairs(placed, cargo) ==
    UNION {{<<c, r>> : c \in {d \in GridRange(container.length) \X GridRange(container.width)
                                       \X ZLevels(placed) :
                                CanPlace(container, placed, cargo, d[1], d[2], d[3], r)}} :
           r \in AdmissibleRotations(cargo)}

PairScore(placed, cargo, pr) ==
    BonusScore(container, placed, cargo, pr[1][1], pr[1][2], pr[1][3], pr[2])

PairOf(p) == <<(<<p.x, p.y, p.z>>), p.rotated>>

C26_Step ==
    (pc = "loop" /\ idx' = idx + 1) =>
        LET cargo == sorted_cargos[idx + 1]
            prim == PrimaryPairs(placed_cargos, cargo)
            grid == GridPairs(placed_cargos, cargo)
            new == placed_cargos'[Len(placed_cargos')]
        IN  IF prim # {}
            THEN /\ Len(placed_cargos') = Len(placed_cargos) + 1
                 /\ new.cargo = cargo
                 /\ PairOf(new) \in prim
                 /\ \A pr \in prim : PairScore(placed_cargos, cargo, PairOf(new))
                                        <= PairScore(placed_cargos, cargo, pr)
            ELSE IF grid # {}
            THEN /\ Len(placed_cargos') = Len(placed_cargos) + 1
                 /\ new.cargo = cargo
                 /\ PairOf(new) \in grid
            ELSE /\ placed_cargos' = placed_cargos
                 /\ not_loaded' = Append(not_loaded, cargo)

\* C26: in find_position the grid fallback runs only when no primary
\* candidate is feasible in any admissible orientation: with a feasible
\* primary pair the item is placed at one of lowest score (bonus included);
\* with none, and a feasible point of the 10-cm grid over the z-levels, it is
\* placed at a grid point; otherwise it is unplaced
C26_PrimaryBeforeGrid == [][C26_Step]_vars

\* the last item attempted had no feasible primary candidate, in an
\* orientation or the other, and was placed by the grid fallback on top of
\* an earlier placement
C26_Witness ==
    /\ pc = "loop"
    /\ idx >= 2
    /\ Len(placed_cargos) >= 2
    /\ LET n == Len(placed_cargos)
           before == SubSeq(placed_cargos, 1, n - 1)
       IN  /\ placed_cargos[n].cargo = sorted_cargos[idx]
           /\ PrimaryPairs(before, sorted_cargos[idx]) = {}
           /\ PairOf(placed_cargos[n]) \in GridPairs(before, sorted_cargos[idx])
           /\ placed_cargos[n].z > 0

----------------------------------------------------------------------------
(* Properties of multi-container loading *)

IdsOf(seq) == {seq[i].id : i \in 1..Len(seq)}

PlacedIdsOf(placed) == {placed[i].cargo.id : i \in 1..Len(placed)}

C28_Inv ==
    /\ Len(container_results) <= container_count
    /\ \A r \in 1..Len(container_results) :
          /\ container_results[r].container_index = r - 1
          /\ \A i \in 1..Len(container_results[r].placed_cargos) :
                container_results[r].placed_cargos[i].container_index = r - 1
          /\ PlacedIdsOf(container_results[r].placed_cargos) \cap IdsOf(sorted_cargos) = {}
          /\ \A q \in 1..Len(container_results) :
                q # r => PlacedIdsOf(container_results[r].placed_cargos)
                           \cap PlacedIdsOf(container_results[q].placed_cargos) = {}
    /\ pc = "place" =>
          /\ sorted_cargos # <<>>
          /\ Len(container_results) < container_count
          /\ Len(container_results) = container_idx
    /\ pc \in {"for", "done"} => Len(container_results) = container_idx

C28_Step ==
    /\ (pc = "for" /\ pc' = "place") =>
          /\ placed_cargos' = <<>>
          /\ step_counter' = 0
          /\ sorted_cargos' = sorted_cargos
          /\ container_results' = container_results
    /\ (pc = "place" /\ pc' = "place") =>
          /\ sorted_cargos' = sorted_cargos
          /\ container_results' = container_results
          /\ \/ /\ Len(placed_cargos') = Len(placed_cargos) + 1
                /\ placed_cargos'[Len(placed_cargos')].cargo = sorted_cargos[idx + 1]
                /\ SubSeq(placed_cargos', 1, Len(placed_cargos)) = placed_cargos
             \/ /\ placed_cargos' = placed_cargos
                /\ not_loaded' = Append(not_loaded, sorted_cargos[idx + 1])
    /\ (pc = "place" /\ pc' = "for") =>
          /\ Len(container_results') = Len(container_results) + 1
          /\ SubSeq(container_results', 1, Len(container_results)) = container_results
          /\ container_results'[Len(container_results')].placed_cargos = placed_cargos
          /\ sorted_cargos' =
                SelectSeqIdx(sorted_cargos,
                             {i \in 1..Len(sorted_cargos) :
                                sorted_cargos[i].id \notin PlacedIdsOf(placed_cargos)})

\* C28: multi-container loading is first-fit over at most N containers: a
\* container is processed only while items remain and fewer than N were
\* processed; it starts empty and is offered exactly the items the one
\* before left unplaced, so an item is placed in a container only after
\* failing in every earlier one; every placement of result k carries the
\* container_index k; a container that placed nothing is in the results too
C28_FirstFit == []C28_Inv /\ [][C28_Step]_vars

\* two containers were processed: the first left items unplaced, the second
\* placed one of them and left another, which stays in the remainder
C28_Witness ==
    /\ pc = "done"
    /\ Len(container_results) = 2
    /\ container_results[1].placed_cargos # <<>>
    /\ container_results[2].placed_cargos # <<>>
    /\ sorted_cargos # <<>>

\* the feasible primary pairs of lowest score in the orientation that
\* find_position tries first among those of lowest score
LowestFirstTried(placed, cargo) ==
    LET prim == PrimaryPairs(placed, cargo)
        best == {pr \in prim : \A q \in prim :
                    PairScore(placed, cargo, pr) <= PairScore(placed, cargo, q)}
        pre == calculate_best_rotation_for_layer(container, cargo)
        first == IF \E pr \in best : pr[2] = pre THEN pre ELSE ~pre
    IN  {pr \in best : pr[2] = first}

\* C29: the position and orientation chosen for an item do not depend on the
\* enumeration order of the candidate set: no two distinct feasible
\* candidates tie for the lowest score in the orientation that wins, so the
\* outcome of every placement step is uniquely determined
C29_NoTieDecidesOutcome ==
    [][(pc = "loop" /\ idx' = idx + 1)
         => Cardinality(LowestFirstTried(placed_cargos, sorted_cargos[idx + 1])) <= 1]_vars

----------------------------------------------------------------------------
(* Properties of the palletizer *)

\* the content lists of the pallets produced so far and of the open pallet
PalletContentLists ==
    [k \in 1..Len(palletized) |-> palletized[k].pallet_contents]
    \o (IF ppc = "pass" THEN <<pallet_contents>> ELSE <<>>)

\* the footprint area of content i of cs resting on the tops of the contents
\* committed before it
ContentRestingArea(cs, i) ==
    SumSeq([j \in 1..(i - 1) |->
        LET d == cs[j].z + cs[j].cargo.height - cs[i].z
        IN  IF d > -SupportTol /\ d < SupportTol
            THEN Span(cs[i].x, cs[i].x + BoxL(cs[i]), cs[j].x, cs[j].x + BoxL(cs[j]))
                 * Span(cs[i].y, cs[i].y + BoxW(cs[i]), cs[j].y, cs[j].y + BoxW(cs[j]))
            ELSE 0])

\* content i of cs passes the feasibility checks against the pallet interior
\* and the contents committed before it
ContentFeasible(cs, i) ==
    LET c == cs[i]
    IN  /\ c.rotated => c.cargo.allow_rotate
        /\ c.cargo.bottom_only => c.z <= Tol
        /\ c.x >= -Tol /\ c.y >= -Tol /\ c.z >= -Tol
        /\ c.x + BoxL(c) <= pallet.pallet_l + Tol
        /\ c.y + BoxW(c) <= pallet.pallet_w + Tol
        /\ c.z + c.cargo.height <= pallet.content_max_h + Tol
        /\ \A j \in 1..(i - 1) : Separated(cs[j], c)
        /\ c.z > Tol => SupportDen * ContentRestingArea(cs, i)
                          >= SupportNum * BoxL(c) * BoxW(c)

\* C27: every content committed to a pallet passes the feasibility checks
\* against the pallet interior and the contents committed before it: rotated
\* only if allow_rotate, z <= 0.01 if bottom_only, anchor non-negative and box
\* within the interior, no overlap with an earlier content, and 70% of the
\* footprint supported when z > 0
C27_ContentsFeasible ==
    \A k \in 1..Len(PalletContentLists) :
        \A i \in 1..Len(PalletContentLists[k]) :
            ContentFeasible(PalletContentLists[k], i)

\* the highest top of the contents cs, measured from the deck
HighestTop(cs) ==
    CHOOSE t \in {cs[i].z + cs[i].cargo.height : i \in 1..Len(cs)} :
        \A i \in 1..Len(cs) : cs[i].z + cs[i].cargo.height <= t

\* C22: every pallet item produced has at least one content, its weight is
\* the sum of the weights of its contents, and its height is its
\* pallet_base_height plus the maximum over its contents of z + item height
C22_PalletTotals ==
    \A k \in 1..Len(palletized) :
        LET p == palletized[k]
            cs == p.pallet_contents
        IN  /\ Len(cs) >= 1
            /\ p.weight = SumSeq([i \in 1..Len(cs) |-> cs[i].cargo.weight])
            /\ p.height = p.pallet_base_height + HighestTop(cs)

\* the palletizer has returned two pallets, one of them with a stacked
\* content, so that its highest top is above the height of each content
C22_Witness ==
    /\ ppc = "done"
    /\ Len(palletized) >= 2
    /\ \E k \in 1..Len(palletized) :
          LET cs == palletized[k].pallet_contents
          IN  /\ \E i \in 1..Len(cs) : cs[i].z > 0
              /\ \A i \in 1..Len(cs) : cs[i].cargo.height < HighestTop(cs)

\* the number of cargos committed to the pallets produced so far and to the
\* open pallet
CommittedCount ==
    SumSeq([k \in 1..Len(PalletContentLists) |-> Len(PalletContentLists[k])])

\* every selected cargo is either remaining or committed, and the k-th
\* iteration of the outer loop starts with at least k - 1 cargos committed
C21_Inv ==
    ppc # "idle" =>
        /\ Len(remaining) + CommittedCount = Len(selected_cargos)
        /\ Len(palletized) <= pallet_count
        /\ ppc = "while" => Len(remaining) <= Len(selected_cargos) - pallet_count

\* an inner pass is repeated only if it committed a cargo, and the outer loop
\* is repeated only if the pallet it closes holds a cargo
C21_Step ==
    /\ (ppc = "pass" /\ made_progress /\ made_progress')
          => /\ Len(remaining') < Len(remaining)
             /\ Len(pallet_contents') > Len(pallet_contents)
    /\ (ppc = "pass" /\ ppc' = "while")
          => /\ pallet_contents # <<>>
             /\ Len(palletized') = Len(palletized) + 1
    /\ (ppc = "while" /\ ppc' = "pass") => remaining # <<>>

\* a natural number that bounds the number of steps the palletizer can
\* still take
PalletVariant ==
    CASE ppc = "idle" -> 4 * Len(ExpandQuantity(cargos)) + 4
      [] ppc = "while" -> 4 * Len(remaining) + 3
      [] ppc = "pass" -> 4 * Len(remaining) + 3 * Len(pallet_contents) + 1
                           + (IF made_progress THEN 1 ELSE 0)
      [] OTHER -> 0

\* C21: the palletizer terminates: each iteration of the outer loop either
\* commits at least one cargo to the new pallet (the remaining list shrinks)
\* or leaves the loop, each inner pass is repeated only if it committed a
\* cargo, and the outer loop never runs twice on the same state: every step
\* strictly lowers a natural-valued variant
C21_Terminates ==
    /\ []C21_Inv
    /\ [][C21_Step /\ PalletVariant' < PalletVariant /\ PalletVariant' >= 0]_vars

\* the palletizer stopped on cargos too large for the pallet after it had
\* produced a pallet with two passes' worth of cargos
C21_Witness ==
    /\ ppc = "done"
    /\ remaining # <<>>
    /\ pallet_contents = <<>>
    /\ pallet_count >= 2
    /\ Len(palletized) = pallet_count - 1

====
